---- MODULE Spec2Model ----
(***************************************************************************)
(* State-machine model of the ColorMunki driver (src/src/munki.rs), its    *)
(* transport contract (crates/spectro-core/src/transport.rs), the          *)
(* calibration store (crates/spectro-core/src/persistence.rs) and the GUI  *)
(* worker thread that drives it (crates/spectro-gui/src/app.rs).           *)
(*                                                                         *)
(* Numbers.  TLC integers are 32-bit signed, so a u32 that takes part in   *)
(* wrapping arithmetic is kept as a pair <<low 16 bits, high 16 bits>>.    *)
(* f32/f64 values are exact rationals <<numerator, denominator>> in lowest *)
(* terms; the inputs are chosen so that the driver's floating-point        *)
(* results are the same rationals (powers of two and small integers).      *)
(***************************************************************************)
EXTENDS Integers, Sequences, FiniteSets, TLC

\* ------------------------------------------------------------------------
\* Program constants
\* ------------------------------------------------------------------------
CMD_GET_VERSION == 133
CMD_GET_FIRMWARE == 134
CMD_GET_STATUS == 135
CMD_TRIGGER_MEASURE == 128
CMD_SET_EEPROM_ADDR == 129
MMF_LAMP == 1
MMF_HIGHGAIN == 4
EP_DATA_IN == 129
NSEN == 137
NBANDS == 36
NCOEF == 16
NLIN == 128
SensorOffset == 6
EepromMinLen == 8169

\* Option<T>: None is the empty tuple, Some(x) the 1-tuple <<x>>
None == <<>>
Some(x) == <<x>>
IsSome(o) == o # <<>>
Unwrap(o) == o[1]

Reflective == "Reflective"
Emissive == "Emissive"
Ambient == "Ambient"
MeasurementMode == {Reflective, Emissive, Ambient}

\* SpectroError variants (crates/spectro-core/src/lib.rs)
ErrUsb == "Usb"
ErrCalibration == "Calibration"
ErrDevice == "Device"
ErrMode == "Mode"

\* An array built element by element.  Concatenating with the empty
\* sequence leaves the value unchanged and makes the evaluator build the
\* array once instead of re-evaluating an element at every access.
Vec(f) == f \o <<>>

Min(a, b) == IF a < b THEN a ELSE b
Max(a, b) == IF a > b THEN a ELSE b

\* ------------------------------------------------------------------------
\* Exact rationals standing for f32 / f64 values
\* ------------------------------------------------------------------------
RECURSIVE GCD(_, _)
GCD(a, b) == IF b = 0 THEN a ELSE GCD(b, a % b)

Abs(x) == IF x < 0 THEN -x ELSE x

RNorm(n, d) ==
    LET g == GCD(Abs(n), Abs(d))
        s == IF d < 0 THEN -1 ELSE 1
    IN  IF n = 0 THEN <<0, 1>> ELSE <<s * (n \div g), s * (d \div g)>>

RInt(n) == <<n, 1>>
RZero == <<0, 1>>
ROne == <<1, 1>>
RAdd(a, b) == IF a[1] = 0 THEN b ELSE IF b[1] = 0 THEN a
              ELSE RNorm(a[1] * b[2] + b[1] * a[2], a[2] * b[2])
RMul(a, b) == IF a[1] = 0 \/ b[1] = 0 THEN RZero
              ELSE RNorm(a[1] * b[1], a[2] * b[2])
RDiv(a, b) ==
    LET gn == GCD(Abs(a[1]), Abs(b[1]))
        gd == GCD(a[2], b[2])
    IN  IF a[1] = 0 THEN RZero
        ELSE RNorm((a[1] \div gn) * (b[2] \div gd), (a[2] \div gd) * (b[1] \div gn))
RGt(a, b) == a[1] * b[2] > b[1] * a[2]

\* the literal 1e-6 of perform_calibration
Epsilon == <<1, 1000000>>

\* ------------------------------------------------------------------------
\* Little-endian decoding / encoding
\* ------------------------------------------------------------------------
\* u16::from_le_bytes
U16FromLe(b0, b1) == b0 + 256 * b1
\* u16::to_le_bytes, as the device puts a sample on the wire
U16ToLe(v) == <<v % 256, v \div 256>>

\* u32::from_le_bytes, kept as <<low half, high half>>
U32FromLe(b0, b1, b2, b3) == <<b0 + 256 * b1, b2 + 256 * b3>>
\* u32 as usize, for the values that fit TLC's integers
U32Int(u) == u[1] + 65536 * u[2]
\* u32::to_le_bytes of a value below 2^31
U32ToLe(v) == <<v % 256, (v \div 256) % 256, (v \div 65536) % 256, v \div 16777216>>
\* u32::wrapping_add
WrappingAdd(a, b) ==
    LET lo == a[1] + b[1]
    IN  <<lo % 65536, (a[2] + b[2] + (lo \div 65536)) % 65536>>

RECURSIVE Pow2(_)
Pow2(n) == IF n = 0 THEN 1 ELSE 2 * Pow2(n - 1)

\* f32::from_bits(u32::from_le_bytes(..)) for zero and for normal numbers
\* whose exponent keeps numerator and denominator inside 31 bits.
F32FromLe(b0, b1, b2, b3) ==
    LET sign == b3 \div 128
        e == (b3 % 128) * 2 + (b2 \div 128)
        m == (b2 % 128) * 65536 + b1 * 256 + b0
        mag == IF e >= 150 THEN RNorm((8388608 + m) * Pow2(e - 150), 1)
               ELSE RNorm(8388608 + m, Pow2(150 - e))
    IN  IF e = 0 /\ m = 0 THEN RZero
        ELSE IF sign = 1 THEN <<-mag[1], mag[2]>> ELSE mag

\* ------------------------------------------------------------------------
\* f32 arithmetic with its rounding.  An f32 is <<m, e>>, the value
\* m * 2^e with 2^23 <= |m| < 2^24, and <<0, 0>> for zero: normal numbers
\* only, which is the range of every computation made with it here.
\* ------------------------------------------------------------------------
RECURSIVE BitLen(_)
BitLen(n) == IF n = 0 THEN 0 ELSE 1 + BitLen(n \div 2)

\* round to nearest, ties to even: the f32 nearest to (n + rest) * 2^e with
\* n >= 0 and 0 <= rest < 1, rest # 0 exactly when sticky (then n >= 2^25)
F32Round(neg, n, e, sticky) ==
    LET k == BitLen(n) - 24
        sgn == IF neg THEN -1 ELSE 1
    IN  IF n = 0 THEN <<0, 0>>
        ELSE IF k <= 0 THEN <<sgn * n * Pow2(-k), e + k>>
        ELSE LET q == n \div Pow2(k)
                 r == n % Pow2(k)
                 half == Pow2(k - 1)
                 up == r > half \/ (r = half /\ (sticky \/ q % 2 = 1))
                 m == IF up THEN q + 1 ELSE q
             IN  IF m = 16777216 THEN <<sgn * 8388608, e + k + 1>>
                 ELSE <<sgn * m, e + k>>

\* n as f32
F32OfInt(n) == F32Round(n < 0, Abs(n), 0, FALSE)
F32Zero == <<0, 0>>
F32Neg(a) == <<-a[1], a[2]>>

\* the pairs <<m, e>>
F32 == Int \X Int

\* a * b: the 48-bit product of the mantissas from 12-bit halves
F32Mul(a, b) ==
    LET Product[x \in F32, y \in F32] ==
            LET ma == Abs(x[1])
                mb == Abs(y[1])
                a1 == ma \div 4096
                a0 == ma % 4096
                b1 == mb \div 4096
                b0 == mb % 4096
                mid == a1 * b0 + a0 * b1
                low == a0 * b0 + (mid % 4096) * 4096
                hi == a1 * b1 + (mid \div 4096) + (low \div 16777216)
                lo == low % 16777216
            IN  IF ma = 0 \/ mb = 0 THEN F32Zero
                ELSE F32Round((x[1] < 0) # (y[1] < 0), hi * 64 + (lo \div 262144),
                              x[2] + y[2] + 18, lo % 262144 # 0)
    IN  Product[a, b]

\* long division, seven quotient bits at a time: <<quotient, remainder>>
\* after `steps` more steps
RECURSIVE DivBits(_, _, _, _)
DivBits(rem, den, steps, q) ==
    IF steps = 0 THEN <<q, rem>>
    ELSE DivBits((128 * rem) % den, den, steps - 1, 128 * q + ((128 * rem) \div den))

\* a / b for b # 0: the quotient of the mantissas with 28 more bits
F32Div(a, b) ==
    LET Quotient[x \in F32, y \in F32] ==
            LET ma == Abs(x[1])
                mb == Abs(y[1])
                d == DivBits(ma % mb, mb, 4, ma \div mb)
            IN  IF ma = 0 THEN F32Zero
                ELSE F32Round((x[1] < 0) # (y[1] < 0), d[1], x[2] - y[2] - 28, d[2] # 0)
    IN  Quotient[a, b]

\* a + b: the operand of the larger exponent with five more bits, the other
\* one shifted under it, the bits shifted out kept as one sticky bit
F32Add(a, b) ==
    LET Sum[x \in F32, y \in F32] ==
            LET h == IF x[2] >= y[2] THEN x ELSE y
                l == IF x[2] >= y[2] THEN y ELSE x
                d == h[2] - l[2]
                A == Abs(h[1]) * 32
                B == IF d <= 5 THEN Abs(l[1]) * Pow2(5 - d)
                     ELSE IF d >= 30 THEN 0
                     ELSE Abs(l[1]) \div Pow2(d - 5)
                sticky == IF d <= 5 THEN FALSE
                          ELSE IF d >= 30 THEN TRUE
                          ELSE Abs(l[1]) % Pow2(d - 5) # 0
                same == (h[1] < 0) = (l[1] < 0)
            IN  IF x[1] = 0 THEN y
                ELSE IF y[1] = 0 THEN x
                ELSE IF same THEN F32Round(h[1] < 0, A + B, h[2] - 5, sticky)
                ELSE IF sticky THEN F32Round(h[1] < 0, A - B - 1, h[2] - 5, TRUE)
                ELSE F32Round(IF A >= B THEN h[1] < 0 ELSE l[1] < 0, Abs(A - B),
                              h[2] - 5, FALSE)
    IN  Sum[a, b]

F32Sub(a, b) == F32Add(a, F32Neg(b))
F32Le(a, b) == F32Sub(a, b)[1] <= 0
F32Lt(a, b) == F32Sub(a, b)[1] < 0

\* the f32 literal written as the decimal n / d, n and d below 2^24
F32Dec(n, d) == F32Div(F32OfInt(n), F32OfInt(d))

\* f32::floor as i32, for |a| < 2^24
F32Floor(a) ==
    IF a[2] >= 0 THEN a[1] * Pow2(a[2])
    ELSE IF a[2] <= -24 THEN (IF a[1] < 0 THEN -1 ELSE 0)
    ELSE LET q == Abs(a[1]) \div Pow2(-a[2])
             r == Abs(a[1]) % Pow2(-a[2])
         IN  IF a[1] >= 0 THEN q ELSE IF r = 0 THEN -q ELSE -q - 1

\* ------------------------------------------------------------------------
\* The device: EEPROM image, firmware descriptor, sensor frames
\* ------------------------------------------------------------------------
\* Byte k (0-based) of the calibration EEPROM of the modelled instrument:
\* cal_version 5, size word 8169 at offset 4, serial "MK1", one-hot
\* reconstruction matrices (reflective: index w, coefficient 1.0; emissive:
\* index w+1, coefficient 2.0), lin_normal = [0,1,0,0], lin_high =
\* [0,0.5,0,0], white_ref = 1.0, amb_coef = 2.0, a non-zero tail byte and
\* the matching checksum 0x5AB17052 at offset 8.
EepromByte(k) ==
    CASE k = 0 -> 5
      [] k = 4 -> 233
      [] k = 5 -> 31
      [] k = 8 -> 82
      [] k = 9 -> 112
      [] k = 10 -> 177
      [] k = 11 -> 90
      [] k = 24 -> 77
      [] k = 25 -> 75
      [] k = 26 -> 49
      [] k >= 40 /\ k < 184 /\ (k - 40) % 4 = 0 -> (k - 40) \div 4
      [] k >= 184 /\ k < 2488 /\ (k - 184) % 64 = 2 -> 128
      [] k >= 184 /\ k < 2488 /\ (k - 184) % 64 = 3 -> 63
      [] k >= 2488 /\ k < 2632 /\ (k - 2488) % 4 = 0 -> (k - 2488) \div 4 + 1
      [] k >= 2632 /\ k < 4936 /\ (k - 2632) % 64 = 3 -> 64
      [] k = 4946 -> 128
      [] k = 4947 -> 63
      [] k = 4963 -> 63
      [] k >= 4968 /\ k < 5112 /\ (k - 4968) % 4 = 2 -> 128
      [] k >= 4968 /\ k < 5112 /\ (k - 4968) % 4 = 3 -> 63
      [] k >= 5256 /\ k < 5400 /\ (k - 5256) % 4 = 3 -> 64
      [] k = 8168 -> 7
      [] OTHER -> 0

EepromLen == 8169

\* ------------------------------------------------------------------------
\* EEPROM decoder (Munki::parse_eeprom).  data is the byte vector, 1-based.
\* ------------------------------------------------------------------------
\* u32::from_le_bytes(data[i..i+4])
WordAt(data, i) == U32FromLe(data[i + 1], data[i + 2], data[i + 3], data[i + 4])

\* a checksum loop that stops at the last whole word
TailWordDropped(data, i) == <<0, 0>>

\* the 1-3 byte tail copied into a zeroed [u8; 4]
TailWord(data, i) ==
    LET rem == Len(data) - i
        B(j) == IF j < rem THEN data[i + j + 1] ELSE 0
    IN  U32FromLe(B(0), B(1), B(2), B(3))

\* The checksum loop, while i < data.len() { ... i += 4 }, for the
\* iterations with offset i up to (not including) stop, from the running
\* sum.  A range of more than one word is run as its first half followed by
\* its second half, which keeps the words in the code's order and the
\* evaluator's recursion shallow; the test sum = sum makes the evaluator
\* reduce the running sum before it goes on.
RECURSIVE ChecksumLoop(_, _, _, _)
ChecksumLoop(data, i, stop, sum) ==
    IF ~(i < stop) \/ sum # sum THEN sum
    ELSE IF stop - i > 4
    THEN LET mid == i + 4 * (((stop - i + 3) \div 4) \div 2)
         IN  ChecksumLoop(data, mid, stop, ChecksumLoop(data, i, mid, sum))
    ELSE IF i = 8 THEN sum
    ELSE IF i + 4 <= Len(data) THEN WrappingAdd(sum, WordAt(data, i))
    ELSE WrappingAdd(sum, TailWord(data, i))

\* a checksum that does not skip the stored word
ChecksumAllWords(data) ==
    WrappingAdd(ChecksumLoop(data, 0, Len(data), <<0, 0>>), WordAt(data, 8))

Checksum(data) == ChecksumLoop(data, 0, Len(data), <<0, 0>>)

F32At(data, i) == F32FromLe(data[i + 1], data[i + 2], data[i + 3], data[i + 4])

\* trim_matches('\0') on the 16 serial bytes
RECURSIVE TrimFront(_)
TrimFront(s) == IF s # <<>> /\ Head(s) = 0 THEN TrimFront(Tail(s)) ELSE s
RECURSIVE TrimBack(_)
TrimBack(s) == IF s # <<>> /\ s[Len(s)] = 0
               THEN TrimBack(SubSeq(s, 1, Len(s) - 1)) ELSE s
TrimNul(s) == TrimBack(TrimFront(s))

\* Result<MunkiConfig>
parse_eeprom(data) ==
    IF Len(data) < EepromMinLen
    THEN [ok |-> FALSE, err |-> ErrCalibration, why |-> "too short"]
    ELSE IF Checksum(data) # WordAt(data, 8)
    THEN [ok |-> FALSE, err |-> ErrCalibration, why |-> "checksum"]
    ELSE [ok |-> TRUE,
          config |->
            [cal_version |-> U16FromLe(data[1], data[2]),
             serial_number |-> TrimNul(SubSeq(data, 25, 40)),
             rmtx_index |-> Vec([i \in 1..NBANDS |-> U32Int(WordAt(data, 40 + (i - 1) * 4))]),
             rmtx_coef |-> Vec([i \in 1..(NBANDS * NCOEF) |-> F32At(data, 184 + (i - 1) * 4)]),
             emtx_index |-> Vec([i \in 1..NBANDS |-> U32Int(WordAt(data, 2488 + (i - 1) * 4))]),
             emtx_coef |-> Vec([i \in 1..(NBANDS * NCOEF) |-> F32At(data, 2632 + (i - 1) * 4)]),
             \* pushed for i = 3, 2, 1, 0: element 1 is the float at +12
             lin_normal |-> Vec([i \in 1..4 |-> F32At(data, 4936 + (4 - i) * 4)]),
             lin_high |-> Vec([i \in 1..4 |-> F32At(data, 4952 + (4 - i) * 4)]),
             white_ref |-> Vec([i \in 1..NBANDS |-> F32At(data, 4968 + (i - 1) * 4)]),
             amb_coef |-> Vec([i \in 1..NBANDS |-> F32At(data, 5256 + (i - 1) * 4)])]]

\* The buffer read_eeprom returns: vec![0u8; size] with the first n bytes
\* overwritten by what the device delivered from address addr.
EepromBuf(addr, size, n) ==
    Vec([k \in 1..size |-> IF k <= n /\ addr + k - 1 < EepromLen
                            THEN EepromByte(addr + k - 1) ELSE 0])

\* The state keeps a decoded MunkiConfig as the buffer it was decoded from,
\* named by its length and the number of delivered bytes; ConfigOf gives the
\* decoded record.  FullDecode is the decode of the complete image,
\* evaluated once.
FullDecode == parse_eeprom(EepromBuf(0, EepromLen, EepromLen))
DecodeOf(size, n) ==
    IF size = EepromLen /\ n = EepromLen THEN FullDecode
    ELSE parse_eeprom(EepromBuf(0, size, n))
ConfigOf(h) == DecodeOf(h.size, h.n).config

\* GET_FIRMWARE descriptor the device answers with: six u32 LE
\* (fw_major, fw_minor, tick_us, min_int_count, n_blocks, block_size):
\* firmware 1.2, tick 50 us, 10000 ticks (0.5 s integration time).
FirmwareBytes ==
    { <<1, 0, 0, 0, 2, 0, 0, 0, 50, 0, 0, 0, 16, 39, 0, 0, 2, 0, 0, 0, 0, 32, 0, 0>> }

\* Munki::read_firmware_info, after the control read filled buf
DecodeFirmware(buf) ==
    [fw_rev_major |-> U32Int(WordAt(buf, 0)) % 256,
     fw_rev_minor |-> U32Int(WordAt(buf, 4)) % 256,
     tick_duration |-> U32Int(WordAt(buf, 8)),
     min_int_count |-> U32Int(WordAt(buf, 12)),
     num_eeprom_blocks |-> U32Int(WordAt(buf, 16)),
     eeprom_block_size |-> U32Int(WordAt(buf, 20))]

\* Sensor frames the device may deliver after TRIGGER_MEASURE (137 u16):
\* flat 100, and a step that is 100 on the first 20 cells and 1124 after.
Flat(v) == Vec([j \in 1..NSEN |-> v])
StepFrame == Vec([j \in 1..NSEN |-> IF j <= 20 THEN 100 ELSE 1124])
Frames == {Flat(100), StepFrame}

\* byte k (1-based) of the frame on the wire
FrameByte(frame, k) == U16ToLe(frame[(k + 1) \div 2])[IF k % 2 = 1 THEN 1 ELSE 2]

\* GET_VERSION answers (bytes of the text)
VersionStrings == {<<>>, <<86, 49>>}

\* ------------------------------------------------------------------------
\* Measurement arithmetic (Munki::measure_spot, Munki::process_spectrum)
\* ------------------------------------------------------------------------
\* u32 * u32 on the little-endian bytes of the factors: the eight bytes of
\* the full product from byte k on
RECURSIVE ProductBytes(_, _, _, _)
ProductBytes(a, b, k, carry) ==
    IF k > 7 THEN <<>>
    ELSE LET Term(i) == IF k - i >= 0 /\ k - i <= 3 THEN a[i + 1] * b[k - i + 1] ELSE 0
             col == carry + Term(0) + Term(1) + Term(2) + Term(3)
         IN  <<col % 256>> \o ProductBytes(a, b, k + 1, col \div 256)

\* a * b in u32: whether it overflows, and the value a build without
\* overflow checks goes on with (for wrapped values below 2^31)
U32Mul(a, b) ==
    LET p == ProductBytes(U32ToLe(a), U32ToLe(b), 0, 0)
    IN  [overflows |-> SubSeq(p, 5, 8) # <<0, 0, 0, 0>>,
         wrapped |-> U32Int(U32FromLe(p[1], p[2], p[3], p[4]))]

\* (min_int_count * tick_duration) as f64 * 1e-6, a u32 product
IntTimeSec(fw) == RNorm(U32Mul(fw.min_int_count, fw.tick_duration).wrapped, 1000000)
\* tick_duration as f64 * 1e-6
TickSec(fw) == RNorm(fw.tick_duration, 1000000)
\* f64::round of a non-negative value, as u32
RRound(r) == (2 * r[1] + r[2]) \div (2 * r[2])
IntClocks(fw) == RRound(RDiv(IntTimeSec(fw), TickSec(fw)))

ModeFlags(lamp, high_gain) ==
    (IF lamp THEN MMF_LAMP ELSE 0) + (IF high_gain THEN MMF_HIGHGAIN ELSE 0)

\* the 12-byte pbuf of Munki::trigger_measure
TriggerPayload(int_clocks, num_meas, mode_flags) ==
    << IF (mode_flags \div MMF_LAMP) % 2 # 0 THEN 1 ELSE 0,
       0,
       IF (mode_flags \div MMF_HIGHGAIN) % 2 # 0 THEN 1 ELSE 0,
       0 >> \o U32ToLe(int_clocks) \o U32ToLe(num_meas)

\* measure_spot up to trigger_measure: the pbuf it sends, or the panic of
\* a build with overflow checks at the u32 product
MeasureSpotTrigger(fw, lamp, high_gain, overflow_checks) ==
    IF overflow_checks /\ U32Mul(fw.min_int_count, fw.tick_duration).overflows
    THEN [panic |-> TRUE, pbuf |-> <<>>]
    ELSE [panic |-> FALSE,
          pbuf |-> TriggerPayload(IntClocks(fw), 1, ModeFlags(lamp, high_gain))]

\* the 8-byte params of Munki::read_eeprom
EepromParams(addr, size) == U32ToLe(addr) \o U32ToLe(size)

\* readings that lack the last sensor cell
DecodeReadingsShort(buf, xferred) ==
    Vec([i \in 1..(xferred \div (NSEN * 2)) |->
        Vec([j \in 1..(NSEN - 1) |->
            U16FromLe(buf[(i - 1) * NSEN * 2 + (j - 1) * 2 + 1],
                      buf[(i - 1) * NSEN * 2 + (j - 1) * 2 + 2])])])
\* Decoding at the end of Munki::read_measurement: xferred / 274 readings
DecodeReadings(buf, xferred) ==
    Vec([i \in 1..(xferred \div (NSEN * 2)) |->
        Vec([j \in 1..NSEN |->
            U16FromLe(buf[(i - 1) * NSEN * 2 + (j - 1) * 2 + 1],
                      buf[(i - 1) * NSEN * 2 + (j - 1) * 2 + 2])])])

\* Steps 1-4 of the pipeline: drop pre-roll, dark subtract, Horner, scale
Linearize(raw_137, high_gain, dark, cfg, fw) ==
    LET polys == IF high_gain THEN cfg.lin_high ELSE cfg.lin_normal
        scale == RDiv(ROne, IntTimeSec(fw))
        Lin(i) ==
            LET v0 == raw_137[SensorOffset + i + 1]
                val == RInt(IF IsSome(dark) THEN v0 - Unwrap(dark)[SensorOffset + i + 1] ELSE v0)
                l3 == polys[4]
                l2 == RAdd(RMul(l3, val), polys[3])
                l1 == RAdd(RMul(l2, val), polys[2])
                l0 == RAdd(RMul(l1, val), polys[1])
            IN  RMul(l0, scale)
    IN  Vec([i \in 1..NLIN |-> Lin(i - 1)])

\* for k in 0..16 { if idx + k < linearized.len() { sum += ... } }
RECURSIVE BandSum(_, _, _, _, _, _)
BandSum(mtx_coef, linearized, w, idx, k, sum) ==
    IF k >= NCOEF \/ sum # sum THEN sum
    ELSE BandSum(mtx_coef, linearized, w, idx, k + 1,
                 IF idx + k < Len(linearized)
                 THEN RAdd(sum, RMul(mtx_coef[w * NCOEF + k + 1], linearized[idx + k + 1]))
                 ELSE sum)

\* the matrix Munki::process_spectrum picks for a mode
MatrixFor(mode, cfg) ==
    IF mode = Emissive
    THEN [index |-> cfg.emtx_index, coef |-> cfg.emtx_coef]
    ELSE [index |-> cfg.rmtx_index, coef |-> cfg.rmtx_coef]

\* a mode-scaling match whose Ambient arm is empty
ModeScaleAmbientUnscaled(mode, sum, w, factors, cfg) ==
    IF mode = Reflective /\ IsSome(factors)
    THEN RMul(sum, Unwrap(factors)[w + 1]) ELSE sum

\* the mode-scaling match of Munki::process_spectrum
ModeScale(mode, sum, w, factors, cfg) ==
    CASE mode = Reflective ->
            IF IsSome(factors) THEN RMul(sum, Unwrap(factors)[w + 1]) ELSE sum
      [] mode = Ambient -> RMul(sum, cfg.amb_coef[w + 1])
      [] mode = Emissive -> sum

WAVELENGTHS == Vec([i \in 1..NBANDS |-> 380 + 10 * (i - 1)])

\* spectrum::MeasurementMode and its #[default]
SpectrumModes == {Reflective, Emissive}
SpectrumModeDefault == Reflective

\* while values.len() < 41 { values.push(0.0) }
PaddedLen == 41
PadValues(values) ==
    values \o Vec([i \in 1..Max(0, PaddedLen - Len(values)) |-> RZero])

\* SpectralData::with_mode
SpectralDataWithMode(values, mode) ==
    [wavelengths |-> WAVELENGTHS, values |-> PadValues(values), mode |-> mode]

\* SpectralData::new
SpectralDataNew(values) ==
    [wavelengths |-> WAVELENGTHS, values |-> PadValues(values),
     mode |-> SpectrumModeDefault]

\* Munki::process_spectrum with self.dark_ref = dark and
\* self.white_cal_factors = factors
process_spectrum(raw_137, high_gain, mode, dark, factors, cfg, fw) ==
    LET linearized == Linearize(raw_137, high_gain, dark, cfg, fw)
        mtx == MatrixFor(mode, cfg)
        values == Vec([w1 \in 1..NBANDS |->
                         ModeScale(mode,
                                   BandSum(mtx.coef, linearized, w1 - 1,
                                           mtx.index[w1], 0, RZero),
                                   w1 - 1, factors, cfg)])
    IN  SpectralDataNew(values)

\* the factor loop of Munki::perform_calibration
CalFactors(spec, cfg) ==
    Vec([i \in 1..NBANDS |->
            IF RGt(spec.values[i], Epsilon)
            THEN RDiv(cfg.white_ref[i], spec.values[i])
            ELSE ROne])

\* the (lamp, high_gain) match of Munki::measure
LampGain(mode) ==
    CASE mode = Reflective -> [lamp |-> TRUE, high_gain |-> FALSE]
      [] mode = Emissive -> [lamp |-> FALSE, high_gain |-> TRUE]
      [] mode = Ambient -> [lamp |-> FALSE, high_gain |-> FALSE]

\* the calibration guard with is_some in place of is_none
NeedsCalibrationInverted(mode, factors) == mode = Reflective /\ IsSome(factors)
\* guards of Munki::measure and Munki::perform_calibration
NeedsCalibration(mode, factors) == mode = Reflective /\ ~IsSome(factors)
NeedsPositionCheck(mode) == mode = Ambient
\* a position check that accepts the Ambient dial position only
AmbientPositionOnly(pos) == pos = 3
AmbientPositionOk(pos) == ~(pos # 1 /\ pos # 3)
\* a position check that also lets the Surface position calibrate
CalibrationOrSurface(pos) == ~(pos # 2 /\ pos # 1)
CalibrationPositionOk(pos) == ~(pos # 2)

\* an exit test that forgets the two bytes per sample
ShortReadPerSample(xferred) == xferred % NSEN # 0
\* the exit test of Munki::read_measurement
ShortRead(xferred) == xferred % (NSEN * 2) # 0

\* a white half that leaves the earlier white_cal_factors in place
WhiteFactorsKeepOld(raw_white, dark, old_factors, cfg, fw) ==
    CalFactors(process_spectrum(raw_white, FALSE, Reflective, dark, old_factors, cfg, fw), cfg)
\* the white half of Munki::perform_calibration: the lamp-on frame is run
\* through the pipeline with white_cal_factors taken out (old_factors is
\* put back and then overwritten)
WhiteFactors(raw_white, dark, old_factors, cfg, fw) ==
    CalFactors(process_spectrum(raw_white, FALSE, Reflective, dark, None, cfg, fw), cfg)

\* DevicePosition decoding of Munki::status
DecodePosition(pos) ==
    CASE pos = 0 -> "Projector"
      [] pos = 1 -> "Surface"
      [] pos = 2 -> "Calibration"
      [] pos = 3 -> "Ambient"
      [] OTHER -> "Unknown"

\* Display text of a SpectroError contains "USB" or "timeout"
\* (the test of the GUI worker): only the Usb variant's prefix
\* "USB Communication Error: " does; no message of the driver's other
\* errors contains either word.
LooksLikeUsbError(err) == err = ErrUsb

\* ------------------------------------------------------------------------
\* Calibration store (persistence.rs): the file cal_<serial>.json
\* ------------------------------------------------------------------------
StoreAbsent == [state |-> "absent", dark_ref |-> <<>>, white_cal_factors |-> <<>>]
StoreUnreadable == [state |-> "unreadable", dark_ref |-> <<>>, white_cal_factors |-> <<>>]
StoreRecord(dark, white) == [state |-> "present", dark_ref |-> dark, white_cal_factors |-> white]

\* what may be on disk when the program starts
StoredFiles ==
    { StoreAbsent,
      StoreUnreadable,
      StoreRecord(Flat(100), Vec([i \in 1..NBANDS |-> <<1, 1024>>])),
      StoreRecord(Flat(100), Vec([i \in 1..2 |-> <<1, 1024>>])),
      StoreRecord(<<100, 100>>, Vec([i \in 1..NBANDS |-> <<1, 1024>>])) }

\* persistence::load_calibration: Result<Option<CalibrationData>>
load_calibration(st) ==
    CASE st.state = "absent" -> [ok |-> TRUE, cal |-> None]
      [] st.state = "unreadable" -> [ok |-> FALSE, cal |-> None]
      [] OTHER -> [ok |-> TRUE, cal |-> Some(st)]

\* an auto-load that takes whatever record it finds
LoadedCalibrationUnchecked(st) ==
    LET r == load_calibration(st)
    IN  IF r.ok /\ IsSome(r.cal)
        THEN [dark_ref |-> Some(Unwrap(r.cal).dark_ref),
              white_cal_factors |-> Some(Unwrap(r.cal).white_cal_factors)]
        ELSE [dark_ref |-> None, white_cal_factors |-> None]

\* the auto-load of Munki::new: the (dark_ref, white_cal_factors) pair
LoadedCalibration(st) ==
    LET r == load_calibration(st)
    IN  IF r.ok /\ IsSome(r.cal)
           /\ Len(Unwrap(r.cal).dark_ref) = 137
           /\ Len(Unwrap(r.cal).white_cal_factors) = 36
        THEN [dark_ref |-> Some(Unwrap(r.cal).dark_ref),
              white_cal_factors |-> Some(Unwrap(r.cal).white_cal_factors)]
        ELSE [dark_ref |-> None, white_cal_factors |-> None]

\* ------------------------------------------------------------------------
\* State
\* ------------------------------------------------------------------------
VARIABLES
    \* struct Munki (None while no instance exists)
    config, firmware, dark_ref, white_cal_factors,
    \* calibration file on disk
    store,
    \* the driver's thread of control: position, the facade call in
    \* progress, and the locals that live across a transfer
    pc, call, lamp, new_fw, ee_size, xferred, buf,
    \* the instrument: frame being delivered, bytes of it not yet read
    dev_frame, ep_pending,
    \* observation of a call: calibration at entry, transfers issued, result
    pre, usb, ret,
    \* GUI: worker's Option<BoxedSpectrometer> and position, the two
    \* channels, and the SpectroApp flags
    device, wpc, cmd_q, upd_q, is_busy, is_connected, is_calibrated,
    \* number of button clicks so far
    clicks,
    \* a library function applied on its own: its arguments and its result
    input, output

munkiVars == <<config, firmware, dark_ref, white_cal_factors>>
localVars == <<lamp, new_fw, ee_size, xferred, buf>>
devVars == <<dev_frame, ep_pending>>
obsVars == <<pre, usb, ret>>
guiVars == <<device, wpc, cmd_q, upd_q, is_busy, is_connected, is_calibrated, clicks>>
pureVars == <<input, output>>
driverVars == <<munkiVars, store, pc, call, localVars, devVars, obsVars>>
vars == <<config, firmware, dark_ref, white_cal_factors, store,
          pc, call, lamp, new_fw, ee_size, xferred, buf,
          dev_frame, ep_pending, pre, usb, ret,
          device, wpc, cmd_q, upd_q, is_busy, is_connected, is_calibrated, clicks,
          input, output>>

Ok(v) == [ok |-> TRUE, err |-> "", val |-> v]
Err(e, msg) == [ok |-> FALSE, err |-> e, val |-> msg]
Running == [ok |-> FALSE, err |-> "running", val |-> ""]

\* one transfer of the Transport trait as the driver issued it; res is the
\* byte count it returned, -1 standing for Err
Xfer(kind, req, data, res) ==
    [xfer |-> kind, req |-> req, data |-> data, ok |-> res >= 0, res |-> res]

HasMunki == IsSome(config)

DriverInit ==
    /\ config = None /\ firmware = None
    /\ dark_ref = None /\ white_cal_factors = None
    /\ store \in StoredFiles
    /\ pc = "idle"
    /\ call = [op |-> "none", mode |-> "-"]
    /\ lamp = FALSE /\ new_fw = None /\ ee_size = 0
    /\ xferred = 0 /\ buf = <<>>
    /\ dev_frame = Flat(100) /\ ep_pending = 0
    /\ pre = [dark_ref |-> None, white_cal_factors |-> None]
    /\ usb = <<>>
    /\ ret = Ok("none")

\* ------------------------------------------------------------------------
\* Entering and leaving a facade call
\* ------------------------------------------------------------------------
Enter(op, mode, first) ==
    /\ pc = "idle"
    /\ call' = [op |-> op, mode |-> mode]
    /\ pre' = [dark_ref |-> dark_ref, white_cal_factors |-> white_cal_factors]
    /\ usb' = <<>>
    /\ ret' = Running
    /\ pc' = first

\* the call returns r without any transfer
Immediate(op, mode, r) ==
    /\ pc = "idle"
    /\ call' = [op |-> op, mode |-> mode]
    /\ pre' = [dark_ref |-> dark_ref, white_cal_factors |-> white_cal_factors]
    /\ usb' = <<>>
    /\ ret' = r
    /\ pc' = "idle"

ResetLocals ==
    /\ lamp' = FALSE /\ new_fw' = None /\ ee_size' = 0
    /\ xferred' = 0 /\ buf' = <<>>

\* the call in progress returns r
Return(r) ==
    /\ ret' = r
    /\ pc' = "idle"
    /\ ResetLocals
    /\ UNCHANGED <<call, pre>>

\* a transfer failed: `?` hands the Usb error to the caller
FailUsb(x) ==
    /\ usb' = Append(usb, x)
    /\ Return(Err(ErrUsb, "transfer failed"))

\* Munki::new
munki_new ==
    /\ Enter("new", "-", "fw")
    /\ UNCHANGED <<munkiVars, store, localVars, devVars>>

\* discover() and discover_with_context(): Context::new, devices(),
\* device_descriptor, open or claim_interface fails and `?` returns the Usb
\* error; no device on the bus has a ColorMunki VID and PID and the Device
\* error is returned; or Munki::new is entered on the first ColorMunki.
\* Before Munki::new no transfer is made.
discover ==
    \/ munki_new
    \/ /\ \E r \in { Err(ErrUsb, "rusb"),
                      Err(ErrDevice, "No supported spectrometer found") } :
             Immediate("discover", "-", r)
       /\ UNCHANGED <<munkiVars, store, localVars, devVars>>

\* Spectrometer::info
munki_info ==
    /\ HasMunki
    /\ Enter("info", "-", "ver")
    /\ UNCHANGED <<munkiVars, store, localVars, devVars>>

\* Spectrometer::status
munki_status ==
    /\ HasMunki
    /\ Enter("status", "-", "poll")
    /\ UNCHANGED <<munkiVars, store, localVars, devVars>>

\* Spectrometer::calibrate -> perform_calibration
munki_calibrate ==
    /\ HasMunki
    /\ Enter("calibrate", "-", "poll")
    /\ UNCHANGED <<munkiVars, store, localVars, devVars>>

\* Spectrometer::measure up to its first transfer
munki_measure(mode) ==
    /\ HasMunki
    /\ IF NeedsCalibration(mode, white_cal_factors)
       THEN /\ Immediate("measure", mode,
                         Err(ErrCalibration, "Reflective mode requires calibration first"))
            /\ UNCHANGED lamp
       ELSE IF NeedsPositionCheck(mode)
       THEN /\ Enter("measure", mode, "poll")
            /\ UNCHANGED lamp
       ELSE /\ Enter("measure", mode, "trig")
            /\ lamp' = LampGain(mode).lamp
    /\ UNCHANGED <<munkiVars, store, new_fw, ee_size, xferred, buf, devVars>>

\* Spectrometer::supported_modes
munki_supported_modes ==
    /\ HasMunki
    /\ Immediate("supported_modes", "-", Ok(<<Reflective, Emissive, Ambient>>))
    /\ UNCHANGED <<munkiVars, store, localVars, devVars>>

\* Spectrometer::is_calibrated
munki_is_calibrated(mode) ==
    /\ HasMunki
    /\ Immediate("is_calibrated", mode,
                 Ok(IF mode = Reflective THEN IsSome(white_cal_factors) ELSE TRUE))
    /\ UNCHANGED <<munkiVars, store, localVars, devVars>>

\* ------------------------------------------------------------------------
\* Munki::new, one action per transfer
\* ------------------------------------------------------------------------
\* sizes the instrument may deliver to one EEPROM interrupt read
EepromChunks == {0, 2, 8000, 8169}

\* read_firmware_info: control_read(CMD_GET_FIRMWARE)
ReadFirmware ==
    /\ pc = "fw"
    /\ \/ /\ FailUsb(Xfer("control_read", CMD_GET_FIRMWARE, <<>>, -1))
       \/ \E b \in FirmwareBytes :
            /\ usb' = Append(usb, Xfer("control_read", CMD_GET_FIRMWARE, <<>>, 24))
            /\ new_fw' = Some(DecodeFirmware(b))
            /\ ee_size' = 4
            /\ pc' = "ee_addr1"
            /\ UNCHANGED <<call, pre, ret, lamp, xferred, buf>>
    /\ UNCHANGED <<munkiVars, store, devVars, guiVars, pureVars>>

\* read_eeprom: control_write(CMD_SET_EEPROM_ADDR, params)
EepromSetAddr ==
    /\ pc \in {"ee_addr1", "ee_addr2"}
    /\ LET addr == IF pc = "ee_addr1" THEN 4 ELSE 0
           params == EepromParams(addr, ee_size)
       IN  \/ FailUsb(Xfer("control_write", CMD_SET_EEPROM_ADDR, params, -1))
           \/ /\ usb' = Append(usb, Xfer("control_write", CMD_SET_EEPROM_ADDR, params, 8))
              /\ pc' = IF pc = "ee_addr1" THEN "ee_read1" ELSE "ee_read2"
              /\ UNCHANGED <<call, pre, ret, localVars>>
    /\ UNCHANGED <<munkiVars, store, devVars, guiVars, pureVars>>

\* read_eeprom(4, 4): the single interrupt_read, then the size decode of
\* read_and_parse_eeprom
EepromReadSize ==
    /\ pc = "ee_read1"
    /\ \/ FailUsb(Xfer("interrupt_read", EP_DATA_IN, <<ee_size>>, -1))
       \/ \E c \in EepromChunks :
            LET n == Min(c, ee_size)
                size_buf == EepromBuf(4, ee_size, n)
            IN  /\ usb' = Append(usb, Xfer("interrupt_read", EP_DATA_IN, <<ee_size>>, n))
                /\ ee_size' = U32Int(WordAt(size_buf, 0))
                /\ pc' = "ee_addr2"
                /\ UNCHANGED <<call, pre, ret, lamp, new_fw, xferred, buf>>
    /\ UNCHANGED <<munkiVars, store, devVars, guiVars, pureVars>>

\* read_eeprom(0, size): the single interrupt_read, then parse_eeprom, the
\* calibration auto-load and the construction of Self
EepromReadData ==
    /\ pc = "ee_read2"
    /\ \/ /\ FailUsb(Xfer("interrupt_read", EP_DATA_IN, <<ee_size>>, -1))
          /\ UNCHANGED munkiVars
       \/ \E c \in EepromChunks :
            LET n == Min(c, ee_size)
                parsed == DecodeOf(ee_size, n)
                cal == LoadedCalibration(store)
            IN  /\ usb' = Append(usb, Xfer("interrupt_read", EP_DATA_IN, <<ee_size>>, n))
                /\ IF parsed.ok
                   THEN /\ config' = Some([size |-> ee_size, n |-> n])
                        /\ firmware' = new_fw
                        /\ dark_ref' = cal.dark_ref
                        /\ white_cal_factors' = cal.white_cal_factors
                        /\ Return(Ok("Munki"))
                   ELSE /\ Return(Err(parsed.err, parsed.why))
                        /\ UNCHANGED munkiVars
    /\ UNCHANGED <<store, devVars, guiVars, pureVars>>

\* ------------------------------------------------------------------------
\* info, status and the dial poll of calibrate / measure(Ambient)
\* ------------------------------------------------------------------------
\* Munki::info: get_version_string().unwrap_or_default()
InfoResult(version) ==
    Ok([model |-> "ColorMunki",
        serial |-> ConfigOf(Unwrap(config)).serial_number,
        firmware |-> <<Unwrap(firmware).fw_rev_major,
                       Unwrap(firmware).fw_rev_minor, version>>])

GetVersion ==
    /\ pc = "ver"
    /\ \/ /\ usb' = Append(usb, Xfer("control_read", CMD_GET_VERSION, <<>>, -1))
          /\ Return(InfoResult(<<>>))
       \/ \E v \in VersionStrings :
            /\ usb' = Append(usb, Xfer("control_read", CMD_GET_VERSION, <<>>, Len(v)))
            /\ Return(InfoResult(v))
    /\ UNCHANGED <<munkiVars, store, devVars, guiVars, pureVars>>

\* raw dial positions and button bytes the instrument may report
DialPositions == 0..4
ButtonBytes == {0, 1}

\* get_raw_status and what its three callers do with the answer
PollStatus ==
    /\ pc = "poll"
    /\ \/ FailUsb(Xfer("control_read", CMD_GET_STATUS, <<>>, -1))
       \/ \E pos \in DialPositions, btn \in ButtonBytes :
            /\ usb' = Append(usb, Xfer("control_read", CMD_GET_STATUS, <<pos>>, 2))
            /\ CASE call.op = "status" ->
                      Return(Ok([position |-> DecodePosition(pos),
                                 button_pressed |-> btn # 0,
                                 is_calibrated |-> IsSome(white_cal_factors)]))
                 [] call.op = "calibrate" ->
                      IF CalibrationPositionOk(pos)
                      THEN /\ pc' = "trig"
                           /\ lamp' = FALSE
                           /\ UNCHANGED <<call, pre, ret, new_fw, ee_size, xferred, buf>>
                      ELSE Return(Err(ErrDevice, "Not in Calibration position"))
                 [] call.op = "measure" ->
                      IF AmbientPositionOk(pos)
                      THEN /\ pc' = "trig"
                           /\ lamp' = LampGain(call.mode).lamp
                           /\ UNCHANGED <<call, pre, ret, new_fw, ee_size, xferred, buf>>
                      ELSE Return(Err(ErrMode, "Ambient mode requires dial in Ambient position"))
    /\ UNCHANGED <<munkiVars, store, devVars, guiVars, pureVars>>

\* ------------------------------------------------------------------------
\* measure_spot: trigger, read loop, and what the caller does with the frame
\* ------------------------------------------------------------------------
\* sizes the instrument may deliver to one measurement interrupt read
ReadChunks == {0, 137, 274}

\* measure_spot is always called with num_meas = 1
NumMeas == 1
TotalBytes == NSEN * 2 * NumMeas

HighGain == IF call.op = "measure" THEN LampGain(call.mode).high_gain ELSE FALSE

\* trigger_measure: control_write(CMD_TRIGGER_MEASURE, pbuf)
Trigger ==
    /\ pc = "trig"
    /\ LET pbuf == TriggerPayload(IntClocks(Unwrap(firmware)), NumMeas,
                                  ModeFlags(lamp, HighGain))
       IN  \/ /\ FailUsb(Xfer("control_write", CMD_TRIGGER_MEASURE, pbuf, -1))
              /\ UNCHANGED devVars
           \/ \E f \in Frames :
                /\ usb' = Append(usb, Xfer("control_write", CMD_TRIGGER_MEASURE, pbuf, 12))
                /\ dev_frame' = f
                /\ ep_pending' = TotalBytes
                /\ xferred' = 0
                /\ buf' = Vec([k \in 1..TotalBytes |-> 0])
                /\ pc' = "read"
                /\ UNCHANGED <<call, pre, ret, lamp, new_fw, ee_size>>
    /\ UNCHANGED <<munkiVars, store, guiVars, pureVars>>

\* the factors taken out before the white measurement instead of after it
CalibrateDarkTakesFactors(raw_dark) ==
    /\ dark_ref' = Some(raw_dark)
    /\ white_cal_factors' = None
    /\ lamp' = TRUE
    /\ pc' = "trig"
    /\ xferred' = 0 /\ buf' = <<>>
    /\ UNCHANGED <<config, firmware, store, call, pre, ret, new_fw, ee_size>>
\* perform_calibration after the lamp-off frame: store it, go on to lamp on
CalibrateDark(raw_dark) ==
    /\ dark_ref' = Some(raw_dark)
    /\ lamp' = TRUE
    /\ pc' = "trig"
    /\ xferred' = 0 /\ buf' = <<>>
    /\ UNCHANGED <<config, firmware, white_cal_factors, store,
                   call, pre, ret, new_fw, ee_size>>

\* perform_calibration after the lamp-on frame: factors, then the save
\* whose failure is ignored
CalibrateWhite(raw_white) ==
    LET factors == WhiteFactors(raw_white, dark_ref, white_cal_factors,
                                ConfigOf(Unwrap(config)), Unwrap(firmware))
    IN  /\ white_cal_factors' = Some(factors)
        /\ \/ store' = StoreRecord(Unwrap(dark_ref), factors)
           \/ store' = store
        /\ Return(Ok("calibrated"))
        /\ UNCHANGED <<config, firmware, dark_ref>>

\* a measure that keeps its frame as the dark reference
MeasureDoneStoresDark(raw) ==
    /\ Return(Ok(process_spectrum(raw, HighGain, call.mode, dark_ref,
                                  white_cal_factors, ConfigOf(Unwrap(config)), Unwrap(firmware))))
    /\ dark_ref' = Some(raw)
    /\ UNCHANGED <<config, firmware, white_cal_factors, store>>
\* Munki::measure after measure_spot
MeasureDone(raw) ==
    /\ Return(Ok(process_spectrum(raw, HighGain, call.mode, dark_ref,
                                  white_cal_factors, ConfigOf(Unwrap(config)), Unwrap(firmware))))
    /\ UNCHANGED <<munkiVars, store>>

\* the buffer decoded as one frame whatever the byte total is
ReadDoneUnchecked(b, x) ==
    IF call.op = "calibrate"
    THEN IF ~lamp THEN CalibrateDark(DecodeReadings(b, NSEN * 2)[1])
                  ELSE CalibrateWhite(DecodeReadings(b, NSEN * 2)[1])
    ELSE MeasureDone(DecodeReadings(b, NSEN * 2)[1])
\* the end of read_measurement and of measure_spot, with b the buffer and
\* x the byte total when the loop was left
ReadDone(b, x) ==
    IF ShortRead(x)
    THEN /\ Return(Err(ErrDevice, "Short read"))
         /\ UNCHANGED <<munkiVars, store>>
    ELSE LET readings == DecodeReadings(b, x)
         IN  IF readings = <<>>
             THEN /\ Return(Err(ErrDevice, "No data"))
                  /\ UNCHANGED <<munkiVars, store>>
             ELSE IF call.op = "calibrate"
             THEN IF ~lamp THEN CalibrateDark(readings[1])
                           ELSE CalibrateWhite(readings[1])
             ELSE MeasureDone(readings[1])

\* if n == 0 { break; }
ZeroReadGoesOn(n) == FALSE
ZeroReadBreaks(n) == n = 0

\* one iteration of the loop of read_measurement
ReadStep ==
    /\ pc = "read"
    /\ xferred < TotalBytes
    /\ UNCHANGED <<guiVars, pureVars>>
    /\ \/ /\ FailUsb(Xfer("interrupt_read", EP_DATA_IN, <<TotalBytes - xferred>>, -1))
          /\ UNCHANGED <<munkiVars, store, devVars>>
       \/ \E c \in ReadChunks :
            LET n == Min(c, TotalBytes - xferred)
                b == Vec([k \in 1..TotalBytes |->
                            IF k > xferred /\ k <= xferred + n
                            THEN FrameByte(dev_frame, k) ELSE buf[k]])
            IN  /\ usb' = Append(usb, Xfer("interrupt_read", EP_DATA_IN,
                                           <<TotalBytes - xferred>>, n))
                /\ ep_pending' = Max(ep_pending - n, 0)
                /\ UNCHANGED dev_frame
                /\ IF ZeroReadBreaks(n) THEN ReadDone(b, xferred)
                   ELSE IF ~(xferred + n < TotalBytes) THEN ReadDone(b, xferred + n)
                   ELSE /\ xferred' = xferred + n
                        /\ buf' = b
                        /\ UNCHANGED <<munkiVars, store, pc, call, pre, ret,
                                       lamp, new_fw, ee_size>>

DriverStep ==
    \/ ReadFirmware \/ EepromSetAddr \/ EepromReadSize \/ EepromReadData
    \/ GetVersion \/ PollStatus \/ Trigger \/ ReadStep

\* ------------------------------------------------------------------------
\* A library client (the CLI of main.rs): one facade call at a time
\* ------------------------------------------------------------------------
GuiIdle ==
    /\ device = None /\ wpc = "recv"
    /\ cmd_q = <<>> /\ upd_q = <<>>
    /\ is_busy = FALSE /\ is_connected = FALSE /\ is_calibrated = FALSE
    /\ clicks = 0

\* no library function is being applied on its own
PureIdle == input = None /\ output = None

Init == DriverInit /\ GuiIdle /\ PureIdle

ClientNew == ~HasMunki /\ discover /\ UNCHANGED <<guiVars, pureVars>>
ClientInfo == munki_info /\ UNCHANGED <<guiVars, pureVars>>
ClientStatus == munki_status /\ UNCHANGED <<guiVars, pureVars>>
ClientCalibrate == munki_calibrate /\ UNCHANGED <<guiVars, pureVars>>
ClientMeasure == \E mode \in MeasurementMode : munki_measure(mode) /\ UNCHANGED <<guiVars, pureVars>>
ClientSupportedModes == munki_supported_modes /\ UNCHANGED <<guiVars, pureVars>>
ClientIsCalibrated ==
    \E mode \in MeasurementMode : munki_is_calibrated(mode) /\ UNCHANGED <<guiVars, pureVars>>

Next ==
    \/ ClientNew \/ ClientInfo \/ ClientStatus \/ ClientCalibrate
    \/ ClientMeasure \/ ClientSupportedModes \/ ClientIsCalibrated
    \/ DriverStep

Spec == Init /\ [][Next]_vars

\* ------------------------------------------------------------------------
\* The GUI (spectro-gui app.rs): the UI thread and the device worker thread
\* joined by two unbounded channels
\* ------------------------------------------------------------------------
\* button clicks in one run
MaxClicks == 2

Command(cmd, mode) == [cmd |-> cmd, mode |-> mode]

\* SpectroApp::new: channels made, worker spawned, Connect sent; a first
\* run, with no calibration file on disk yet
InitGui ==
    /\ DriverInit
    /\ store = StoreAbsent
    /\ device = None /\ wpc = "recv"
    /\ cmd_q = <<Command("Connect", "-")>> /\ upd_q = <<>>
    /\ is_busy = FALSE /\ is_connected = FALSE /\ is_calibrated = FALSE
    /\ clicks = 0
    /\ PureIdle

\* one arm of the match on UIUpdate in SpectroApp::update
HandleUpdate(st, u) ==
    CASE u = "Connected" -> [st EXCEPT !.is_connected = TRUE, !.is_busy = FALSE]
      [] u = "Status" -> [st EXCEPT !.is_busy = FALSE]
      [] u = "CalibrationSuccessful" -> [st EXCEPT !.is_calibrated = TRUE, !.is_busy = FALSE]
      [] u = "Result" -> [st EXCEPT !.is_busy = FALSE]
      [] u = "Error" -> [st EXCEPT !.is_busy = FALSE]
      [] u = "Disconnected" -> [st EXCEPT !.is_connected = FALSE]

\* while let Ok(update) = self.update_rx.try_recv() { ... }
RECURSIVE DrainUpdates(_, _)
DrainUpdates(q, st) ==
    IF q = <<>> THEN st ELSE DrainUpdates(Tail(q), HandleUpdate(st, Head(q)))

\* SpectroApp::update, one frame: the updates are drained, then at most one
\* of the buttons is clicked
Update ==
    LET st == DrainUpdates(upd_q, [is_busy |-> is_busy, is_connected |-> is_connected,
                                   is_calibrated |-> is_calibrated])
        Click(cmd) ==
            /\ clicks < MaxClicks
            /\ cmd_q' = Append(cmd_q, cmd)
            /\ is_busy' = TRUE
            /\ clicks' = clicks + 1
    IN  /\ upd_q' = <<>>
        /\ is_connected' = st.is_connected
        /\ is_calibrated' = st.is_calibrated
        /\ \/ /\ upd_q # <<>>
              /\ is_busy' = st.is_busy
              /\ UNCHANGED <<cmd_q, clicks>>
           \/ /\ ~st.is_busy /\ st.is_connected
              /\ \E mode \in MeasurementMode : Click(Command("Measure", mode))
           \/ /\ ~st.is_busy /\ st.is_connected
              /\ Click(Command("Calibrate", "-"))
           \/ /\ ~st.is_connected
              /\ Click(Command("Connect", "-"))
        /\ UNCHANGED <<device, wpc, driverVars, pureVars>>

\* what the Calibrate and Measure arms send when device is None
NoDeviceSilent == "Disconnected"
NoDeviceUpdate == "Error"

\* the worker takes the next command: cmd_rx.recv() and the match arm up
\* to the call into the driver
WorkerRecv ==
    /\ wpc = "recv" /\ pc = "idle"
    /\ cmd_q # <<>>
    /\ cmd_q' = Tail(cmd_q)
    /\ LET cmd == Head(cmd_q)
       IN  CASE cmd.cmd = "Connect" ->
                  /\ upd_q' = Append(upd_q, "Status")
                  /\ discover
                  /\ wpc' = "connect"
             [] cmd.cmd = "Calibrate" ->
                  IF IsSome(device)
                  THEN /\ upd_q' = Append(upd_q, "Status")
                       /\ munki_calibrate
                       /\ wpc' = "calibrate"
                  ELSE /\ upd_q' = Append(upd_q, NoDeviceUpdate)
                       /\ UNCHANGED <<wpc, driverVars>>
             [] cmd.cmd = "Measure" ->
                  IF IsSome(device)
                  THEN /\ upd_q' = Append(upd_q, "Status")
                       /\ munki_measure(cmd.mode)
                       /\ wpc' = "measure"
                  ELSE /\ upd_q' = Append(upd_q, NoDeviceUpdate)
                       /\ UNCHANGED <<wpc, driverVars>>
    /\ UNCHANGED <<device, is_busy, is_connected, is_calibrated, clicks, pureVars>>

\* Connect arm after discover() returned
WorkerConnect ==
    /\ wpc = "connect" /\ pc = "idle"
    /\ IF ret.ok
       THEN /\ munki_info
            /\ wpc' = "info"
            /\ UNCHANGED upd_q
       ELSE /\ upd_q' = Append(upd_q, "Error")
            /\ wpc' = "recv"
            /\ UNCHANGED driverVars
    /\ UNCHANGED <<device, cmd_q, is_busy, is_connected, is_calibrated, clicks, pureVars>>

\* Connect arm after d.info().ok(): device = Some(d) and the first of the
\* two sends
WorkerInfo ==
    /\ wpc = "info" /\ pc = "idle"
    /\ device' = Some("Munki")
    /\ upd_q' = Append(upd_q, "Connected")
    /\ wpc' = "connected"
    /\ UNCHANGED <<driverVars, cmd_q, is_busy, is_connected, is_calibrated, clicks, pureVars>>

\* Connect arm, second send: Status("Device connected")
WorkerConnected ==
    /\ wpc = "connected"
    /\ upd_q' = Append(upd_q, "Status")
    /\ wpc' = "recv"
    /\ UNCHANGED <<driverVars, device, cmd_q, is_busy, is_connected, is_calibrated, clicks, pureVars>>

\* Calibrate arm after d.calibrate() returned
WorkerCalibrate ==
    /\ wpc = "calibrate" /\ pc = "idle"
    /\ upd_q' = Append(upd_q, IF ret.ok THEN "CalibrationSuccessful" ELSE "Error")
    /\ wpc' = "recv"
    /\ UNCHANGED <<driverVars, device, cmd_q, is_busy, is_connected, is_calibrated, clicks, pureVars>>

\* Measure arm after d.measure(mode) returned, up to its first send;
\* device = None drops the Munki
WorkerMeasure ==
    /\ wpc = "measure" /\ pc = "idle"
    /\ IF ret.ok
       THEN /\ upd_q' = Append(upd_q, "Result")
            /\ wpc' = "result"
            /\ UNCHANGED <<device, munkiVars>>
       ELSE IF LooksLikeUsbError(ret.err)
       THEN /\ device' = None
            /\ config' = None /\ firmware' = None
            /\ dark_ref' = None /\ white_cal_factors' = None
            /\ upd_q' = Append(upd_q, "Disconnected")
            /\ wpc' = "disconnected"
       ELSE /\ upd_q' = Append(upd_q, "Error")
            /\ wpc' = "recv"
            /\ UNCHANGED <<device, munkiVars>>
    /\ UNCHANGED <<store, pc, call, localVars, devVars, obsVars,
                   cmd_q, is_busy, is_connected, is_calibrated, clicks, pureVars>>

\* Measure arm, Ok, second send: Status("Measurement complete")
WorkerResult ==
    /\ wpc = "result"
    /\ upd_q' = Append(upd_q, "Status")
    /\ wpc' = "recv"
    /\ UNCHANGED <<driverVars, device, cmd_q, is_busy, is_connected, is_calibrated, clicks, pureVars>>

\* Measure arm, Err, after Disconnected was sent: Error("Measurement failed")
WorkerDisconnected ==
    /\ wpc = "disconnected"
    /\ upd_q' = Append(upd_q, "Error")
    /\ wpc' = "recv"
    /\ UNCHANGED <<driverVars, device, cmd_q, is_busy, is_connected, is_calibrated, clicks, pureVars>>

\* the worker thread: at each position of the loop body one step
WorkerStep ==
    \/ WorkerRecv \/ WorkerConnect \/ WorkerInfo \/ WorkerConnected
    \/ WorkerCalibrate \/ WorkerMeasure \/ WorkerResult \/ WorkerDisconnected

NextGui ==
    \/ Update
    \/ WorkerStep
    \/ DriverStep

SpecGui == InitGui /\ [][NextGui]_vars

\* ------------------------------------------------------------------------
\* Reading the transfer log of a call
\* ------------------------------------------------------------------------
IsTrigger(x) == x.xfer = "control_write" /\ x.req = CMD_TRIGGER_MEASURE
IsStatusPoll(x) == x.xfer = "control_read" /\ x.req = CMD_GET_STATUS
Triggers == SelectSeq(usb, IsTrigger)
Polls == SelectSeq(usb, IsStatusPoll)
CalibrationKept ==
    dark_ref = pre.dark_ref /\ white_cal_factors = pre.white_cal_factors

\* ------------------------------------------------------------------------
\* C1: whenever measure(Reflective) is called while white_cal_factors is
\* absent, it returns a Calibration error at once, with no transfer issued
\* (no status poll, no trigger) and dark_ref and white_cal_factors as they
\* were at the call.
\* ------------------------------------------------------------------------
ReflectiveUncalibrated ==
    call.op = "measure" /\ call.mode = Reflective /\ ~IsSome(pre.white_cal_factors)

C1_ReflectiveNeedsCalibration ==
    ReflectiveUncalibrated =>
        /\ pc = "idle"
        /\ ~ret.ok /\ ret.err = ErrCalibration
        /\ usb = <<>>
        /\ CalibrationKept

\* reached with a dark_ref left by a calibration whose white half failed
C1_Witness ==
    /\ ReflectiveUncalibrated
    /\ ret.err = ErrCalibration
    /\ IsSome(dark_ref)

\* ------------------------------------------------------------------------
\* C2: calibrate() issues the status poll before anything else, and when
\* the polled position is not 2 it returns an error with that poll as its
\* only transfer (no trigger) and dark_ref and white_cal_factors unchanged.
\* ------------------------------------------------------------------------
C2_CalibrateChecksPosition ==
    call.op = "calibrate" =>
        /\ usb = <<>> => pc = "poll"
        /\ usb # <<>> => IsStatusPoll(usb[1])
        /\ (usb # <<>> /\ usb[1].ok /\ usb[1].data # <<2>>) =>
              /\ pc = "idle"
              /\ ~ret.ok
              /\ Len(usb) = 1 /\ Triggers = <<>>
              /\ CalibrationKept

\* a calibrate refused in the Surface position, on a calibrated instrument
C2_Witness ==
    /\ call.op = "calibrate" /\ pc = "idle"
    /\ usb # <<>> /\ usb[1].data = <<1>>
    /\ ret.err = ErrDevice
    /\ IsSome(white_cal_factors)

\* ------------------------------------------------------------------------
\* C3: measure(Ambient) polls the status before it triggers; it returns a
\* Mode error exactly when the polled position is neither 1 nor 3, and then
\* sends no trigger.  measure in the other modes never polls the status and
\* never returns a Mode error.
\* ------------------------------------------------------------------------
PolledPosition == usb[1].data[1]

C3_AmbientChecksPosition ==
    /\ (call.op = "measure" /\ call.mode = Ambient) =>
          /\ usb = <<>> => pc = "poll"
          /\ usb # <<>> => IsStatusPoll(usb[1])
          /\ (~ret.ok /\ ret.err = ErrMode) <=>
                (usb # <<>> /\ usb[1].ok /\ PolledPosition \notin {1, 3})
          /\ (~ret.ok /\ ret.err = ErrMode) => (pc = "idle" /\ Triggers = <<>>)
          /\ (usb # <<>> /\ usb[1].ok /\ PolledPosition \in {1, 3}
                /\ Len(usb) > 1) => IsTrigger(usb[2])
    /\ (call.op = "measure" /\ call.mode # Ambient) =>
          /\ Polls = <<>>
          /\ ret.err # ErrMode

\* an Ambient measure that went through in the Surface position
C3_Witness ==
    /\ call.op = "measure" /\ call.mode = Ambient /\ pc = "idle"
    /\ ret.ok /\ PolledPosition = 1
    /\ Triggers # <<>>

\* ------------------------------------------------------------------------
\* C5: a calibrate() that succeeds has sent exactly two triggers, the first
\* with the lamp off and the second with the lamp on; the lamp-off frame is
\* in dark_ref when the second trigger is about to be sent; and the new
\* white_cal_factors[w] is white_ref[w] / measured[w] where measured[w] >
\* 1e-6 and 1.0 elsewhere, with measured the Reflective spectrum of the
\* lamp-on frame computed with the new dark_ref and without any factors.
\* ------------------------------------------------------------------------
LampByte(x) == x.data[1]

MeasuredWhite ==
    process_spectrum(dev_frame, FALSE, Reflective, dark_ref, None,
                     ConfigOf(Unwrap(config)), Unwrap(firmware)).values

ExpectedWhiteScale ==
    LET measured == MeasuredWhite
        white_ref == ConfigOf(Unwrap(config)).white_ref
    IN  Vec([w \in 1..36 |->
                IF RGt(measured[w], <<1, 1000000>>)
                THEN RDiv(white_ref[w], measured[w])
                ELSE <<1, 1>>])

C5_CalibrationSequence ==
    call.op = "calibrate" =>
        /\ Len(Triggers) <= 2
        /\ Len(Triggers) >= 1 => LampByte(Triggers[1]) = 0
        /\ Len(Triggers) = 2 => (LampByte(Triggers[2]) = 1 /\ IsSome(dark_ref))
        /\ (pc = "trig" /\ Len(Triggers) = 1) => dark_ref = Some(dev_frame)
        /\ (pc = "idle" /\ ret.ok) =>
              /\ Len(Triggers) = 2
              /\ white_cal_factors = Some(ExpectedWhiteScale)

\* a second calibration: factors existed, the dark frame changed, and the
\* new factors have a band at 1.0 (nothing measured) and a band computed
C5_Witness ==
    /\ call.op = "calibrate" /\ pc = "idle" /\ ret.ok
    /\ IsSome(pre.white_cal_factors) /\ IsSome(pre.dark_ref)
    /\ pre.dark_ref # dark_ref
    /\ pre.white_cal_factors # white_cal_factors
    /\ \E w \in 1..36 : Unwrap(white_cal_factors)[w] = <<1, 1>>
    /\ \E w \in 1..36 : Unwrap(white_cal_factors)[w] # <<1, 1>>

\* ------------------------------------------------------------------------
\* C6: during and after measure (any mode, any outcome), status, info,
\* supported_modes and is_calibrated, dark_ref and white_cal_factors are
\* what they were when the call was made.
\* ------------------------------------------------------------------------
C6_OnlyCalibrateChangesCalibration ==
    call.op \in {"measure", "status", "info", "supported_modes", "is_calibrated"} =>
        CalibrationKept

\* a successful Emissive measure on an instrument with a dark reference
C6_Witness ==
    /\ call.op = "measure" /\ call.mode = Emissive /\ pc = "idle" /\ ret.ok
    /\ IsSome(dark_ref) /\ IsSome(white_cal_factors)
    /\ dev_frame # Unwrap(dark_ref)

\* ------------------------------------------------------------------------
\* C7: when the read loop is left with a byte total that is not a multiple
\* of 137 * 2 the operation fails with "Short read"; otherwise the read
\* gives total / 274 frames: none (the caller reports "No data"), or one
\* whose 137 samples are the little-endian words of the bytes in arrival
\* order, i.e. the frame the instrument sent.
\* ------------------------------------------------------------------------
LastTriggerAt ==
    CHOOSE i \in 0..Len(usb) :
        /\ i = 0 \/ IsTrigger(usb[i])
        /\ \A j \in (i + 1)..Len(usb) : ~IsTrigger(usb[j])

RECURSIVE BytesFrom(_)
BytesFrom(i) == IF i > Len(usb) THEN 0 ELSE usb[i].res + BytesFrom(i + 1)
Received == BytesFrom(LastTriggerAt + 1)

LoopLeft ==
    /\ call.op \in {"measure", "calibrate"}
    /\ Triggers # <<>>
    /\ pc # "read"
    /\ usb[Len(usb)].xfer = "interrupt_read" /\ usb[Len(usb)].ok

C7_ReadLoopResult ==
    LoopLeft =>
        IF Received % (137 * 2) # 0
        THEN pc = "idle" /\ ~ret.ok /\ ret.err = ErrDevice /\ ret.val = "Short read"
        ELSE /\ (~ret.ok /\ pc = "idle") => ret.val # "Short read"
             /\ Received \div (137 * 2) = 0 =>
                   (pc = "idle" /\ ~ret.ok /\ ret.err = ErrDevice /\ ret.val = "No data")
             /\ Received \div (137 * 2) = 1 =>
                   CASE call.op = "measure" ->
                          /\ pc = "idle" /\ ret.ok
                          /\ ret.val = process_spectrum(dev_frame, HighGain, call.mode,
                                                        dark_ref, white_cal_factors,
                                                        ConfigOf(Unwrap(config)),
                                                        Unwrap(firmware))
                     [] call.op = "calibrate" /\ pc = "trig" -> dark_ref = Some(dev_frame)
                     [] OTHER -> pc = "idle" /\ ret.ok

\* the step frame arrived in two reads of 137 bytes and was decoded
C7_Witness ==
    /\ LoopLeft /\ call.op = "calibrate" /\ pc = "trig"
    /\ Len(usb) = 4 /\ usb[3].res = 137 /\ usb[4].res = 137
    /\ dev_frame = StepFrame /\ dark_ref = Some(StepFrame)

\* ------------------------------------------------------------------------
\* C8: an EEPROM interrupt read that delivered fewer bytes than were asked
\* for is followed by a further interrupt read: Munki::new never goes on
\* (nor returns) with a buffer the instrument filled only in part.
\* ------------------------------------------------------------------------
ShortEepromRead(x) == x.xfer = "interrupt_read" /\ x.ok /\ x.res < x.data[1]

C8_EepromReadsUntilComplete ==
    call.op = "new" =>
        \A i \in 1..Len(usb) :
            ShortEepromRead(usb[i]) =>
                IF i < Len(usb) THEN usb[i + 1].xfer = "interrupt_read"
                ELSE pc \in {"ee_read1", "ee_read2"}

\* ------------------------------------------------------------------------
\* C10: info, status, calibrate and measure never return success after one
\* of their transfers has failed.
\* ------------------------------------------------------------------------
C10_TransferErrorsPropagate ==
    (pc = "idle" /\ call.op \in {"info", "status", "calibrate", "measure"}
        /\ \E i \in 1..Len(usb) : ~usb[i].ok) => ~ret.ok

\* ------------------------------------------------------------------------
\* C4: once an operation has failed with a transport error the instrument
\* is Disconnected: the next operation that sends anything to it is a
\* connect (Munki::new), never a calibrate or a measure.
\* ------------------------------------------------------------------------
C4_TransportFailureDisconnects ==
    [][ (pc = "idle" /\ ~ret.ok /\ ret.err = ErrUsb /\ pc' # "idle")
            => call'.op = "new" ]_vars

\* ------------------------------------------------------------------------
\* C9: a device operation starts only after the one before it has returned,
\* and a control transfer is issued only when the frame asked for by the
\* last trigger has been read in full (no byte of it is still pending).
\* ------------------------------------------------------------------------
IssuesControl ==
    /\ usb' # usb /\ usb' # <<>>
    /\ usb'[Len(usb')].xfer # "interrupt_read"

C9_FrameReadBeforeNextCommand ==
    [][ /\ call' # call => pc = "idle"
        /\ IssuesControl => ep_pending = 0 ]_vars

\* ------------------------------------------------------------------------
\* Munki::parse_eeprom applied on its own.  The payloads are the EEPROM
\* image cut or zero-extended to len bytes, with the low byte of the stored
\* checksum set to ck and the byte at offset off (when inside the payload)
\* set to val.
\* ------------------------------------------------------------------------
PayloadLens == {8168, 8169, 8173}
ChecksumBytes == {75, 82, 85}
ChangedOffsets == {0, 1, 2, 3, 100, 8167, 8168, 8172}
ChangedValues == {0, 3, 10, 18}

StartPayload(len, ck) ==
    Vec([k \in 1..len |-> IF k = 9 THEN ck ELSE EepromByte(k - 1)])

Payload(d) ==
    LET start == StartPayload(d.len, d.ck)
    IN  IF d.off < d.len THEN [start EXCEPT ![d.off + 1] = d.val] ELSE start

InitEeprom ==
    /\ DriverInit /\ store = StoreAbsent
    /\ GuiIdle
    /\ input \in [len : PayloadLens, ck : ChecksumBytes,
                  off : ChangedOffsets, val : ChangedValues]
    /\ output = None

ParseEeprom ==
    /\ output = None
    /\ output' = Some(parse_eeprom(Payload(input)))
    /\ UNCHANGED <<driverVars, guiVars, input>>

NextEeprom == ParseEeprom

SpecEeprom == InitEeprom /\ [][NextEeprom]_vars

\* The checksum as the sum of the payload's bytes by their place in a
\* word: ColumnSum adds the bytes at offsets 4w + c for the words w in
\* first..last, leaving out the word at offset 8.
RECURSIVE ColumnSum(_, _, _, _)
ColumnSum(data, c, first, last) ==
    IF first > last THEN 0
    ELSE IF first = last
    THEN IF first # 2 /\ 4 * first + c < Len(data) THEN data[4 * first + c + 1] ELSE 0
    ELSE LET mid == (first + last) \div 2
         IN  ColumnSum(data, c, first, mid) + ColumnSum(data, c, mid + 1, last)

WordSum(data) ==
    LET words == (Len(data) + 3) \div 4
        c0 == ColumnSum(data, 0, 0, words - 1)
        c1 == ColumnSum(data, 1, 0, words - 1)
        c2 == ColumnSum(data, 2, 0, words - 1)
        c3 == ColumnSum(data, 3, 0, words - 1)
        low == c0 + 256 * c1
    IN  <<low % 65536, ((low \div 65536) + c2 + 256 * c3) % 65536>>

StoredWord(data) == <<data[9] + 256 * data[10], data[11] + 256 * data[12]>>

\* C11: a payload of at least 8169 bytes decodes exactly when the sum
\* modulo 2^32 of its little-endian words other than the word at offset 8,
\* the tail zero-extended, equals the word stored at offset 8; a shorter
\* payload is rejected whatever its checksum.
C11_DecodeIffChecksumMatches ==
    IsSome(output) =>
        LET data == Payload(input)
            r == Unwrap(output)
        IN  IF Len(data) >= 8169
            THEN r.ok <=> (WordSum(data) = StoredWord(data))
            ELSE ~r.ok

\* a changed byte in the tail of a 8173-byte payload, made up for in the
\* stored checksum, decodes
C11_Witness ==
    /\ IsSome(output) /\ Unwrap(output).ok
    /\ input.len = 8173 /\ input.off = 8172 /\ input.val = 3 /\ input.ck = 85

\* whether the payload before the change decodes
StartDecodes ==
    [len \in PayloadLens, ck \in ChecksumBytes |->
        parse_eeprom(StartPayload(len, ck)).ok]

SingleByteChanged ==
    /\ input.off < input.len
    /\ input.off \notin 8..11
    /\ StartDecodes[input.len, input.ck]
    /\ EepromByte(input.off) # input.val

\* C12: changing one byte outside offsets 8..11 of a payload that decodes
\* makes the decode fail with a checksum mismatch.
C12_ByteChangeBreaksChecksum ==
    (IsSome(output) /\ SingleByteChanged) =>
        (~Unwrap(output).ok /\ Unwrap(output).why = "checksum")

\* the final tail byte of the 8169-byte image changed from 7 to 3
C12_Witness ==
    /\ IsSome(output) /\ SingleByteChanged
    /\ input.len = 8169 /\ input.off = 8168 /\ input.val = 3
    /\ ~Unwrap(output).ok

\* ------------------------------------------------------------------------
\* Munki::process_spectrum applied on its own: a frame, the gain, a mode, and
\* the dark_ref and white_cal_factors of the Munki it is called on; config
\* and firmware are the decoded image and descriptor.
\* ------------------------------------------------------------------------
PipelineDarks == {None, Some(Flat(100)), Some(StepFrame)}
PipelineFactors ==
    { None,
      Some(Vec([i \in 1..NBANDS |-> <<1, 1024>>])),
      Some(Vec([i \in 1..NBANDS |-> <<3, 1>>])) }

\* self.firmware: the descriptor the instrument answers with
PipelineFirmware == DecodeFirmware(CHOOSE b \in FirmwareBytes : TRUE)

InitPipeline ==
    /\ DriverInit /\ store = StoreAbsent
    /\ GuiIdle
    /\ input \in [raw : Frames, high_gain : BOOLEAN, mode : MeasurementMode,
                  dark : PipelineDarks, factors : PipelineFactors]
    /\ output = None

ProcessSpectrum ==
    /\ output = None
    /\ output' = Some(Ok(process_spectrum(input.raw, input.high_gain, input.mode,
                                          input.dark, input.factors,
                                          FullDecode.config,
                                          PipelineFirmware)))
    /\ UNCHANGED <<driverVars, guiVars, input>>

NextPipeline == ProcessSpectrum

SpecPipeline == InitPipeline /\ [][NextPipeline]_vars

\* the band sums of the reconstruction with the matrix mtx, before the
\* mode scaling
BandSums(mtx) ==
    LET linearized == Linearize(input.raw, input.high_gain, input.dark,
                                FullDecode.config, PipelineFirmware)
    IN  Vec([w1 \in 1..NBANDS |->
                BandSum(mtx.coef, linearized, w1 - 1, mtx.index[w1], 0, RZero)])

\* the matrix the reconstruction is specified to use
SpecifiedMatrix(mode, cfg) ==
    IF mode = Reflective
    THEN [index |-> cfg.rmtx_index, coef |-> cfg.rmtx_coef]
    ELSE [index |-> cfg.emtx_index, coef |-> cfg.emtx_coef]

\* C13: the reconstruction uses the reflective matrix exactly for
\* Reflective and the emissive matrix for Emissive and Ambient: the bands
\* returned are the band sums over that matrix, scaled for the mode.
C13_MatrixByMode ==
    IsSome(output) =>
        LET cfg == FullDecode.config
            sums == BandSums(SpecifiedMatrix(input.mode, cfg))
            values == Unwrap(output).val.values
        IN  \A w \in 0..(NBANDS - 1) :
                values[w + 1] = ModeScale(input.mode, sums[w + 1], w, input.factors, cfg)

\* C16 as stated: in the mode scaling, Reflective multiplies every band by
\* white_scale[w] when white_scale is present and returns an error when it
\* is unset; Ambient multiplies by amb_coef[w]; Emissive applies no scaling.
C16_ReflectiveUnsetIsError ==
    IsSome(output) =>
        LET cfg == FullDecode.config
            sums == BandSums(MatrixFor(input.mode, cfg))
            r == Unwrap(output)
        IN  CASE input.mode = Reflective /\ ~IsSome(input.factors) -> ~r.ok
              [] input.mode = Reflective /\ IsSome(input.factors) ->
                    /\ r.ok
                    /\ \A w \in 1..NBANDS :
                         r.val.values[w] = RMul(sums[w], Unwrap(input.factors)[w])
              [] input.mode = Ambient ->
                    /\ r.ok
                    /\ \A w \in 1..NBANDS : r.val.values[w] = RMul(sums[w], cfg.amb_coef[w])
              [] input.mode = Emissive ->
                    /\ r.ok
                    /\ \A w \in 1..NBANDS : r.val.values[w] = sums[w]

\* C16 amended: in the mode scaling, Reflective multiplies every band by
\* white_scale[w] when white_scale is present and applies no scaling when
\* it is unset; Ambient multiplies by amb_coef[w]; Emissive applies no
\* scaling; the pipeline returns a spectrum in every case.
C16_ReflectiveUnsetIsUnscaled ==
    IsSome(output) =>
        LET cfg == FullDecode.config
            sums == BandSums(MatrixFor(input.mode, cfg))
            r == Unwrap(output)
        IN  /\ r.ok
            /\ \A w \in 1..NBANDS :
                 r.val.values[w] =
                    CASE input.mode = Reflective /\ ~IsSome(input.factors) -> sums[w]
                      [] input.mode = Reflective /\ IsSome(input.factors) ->
                            RMul(sums[w], Unwrap(input.factors)[w])
                      [] input.mode = Ambient -> RMul(sums[w], cfg.amb_coef[w])
                      [] input.mode = Emissive -> sums[w]

\* Reflective without white_scale on a lit frame: the bands come back
\* unscaled and not zero
C16_Witness ==
    /\ IsSome(output) /\ Unwrap(output).ok
    /\ input.mode = Reflective /\ input.factors = None
    /\ input.raw = StepFrame /\ input.dark = Some(Flat(100))
    /\ Unwrap(output).val.values[NBANDS] = <<2048, 1>>

\* C14: the Spectrum a successful measure(mode) returns carries a mode tag
\* equal to the requested mode, for Reflective, Emissive and Ambient.
C14_ModeTagIsRequestedMode ==
    (pc = "idle" /\ call.op = "measure" /\ ret.ok) => ret.val.mode = call.mode

\* ------------------------------------------------------------------------
\* Spectral data: the constructors, SpectralData::resample and
\* sprague::sprague_interpolate.  Wavelengths are whole numbers of nm;
\* values are multiples of 3840, for which the f32 arithmetic of both
\* polynomials is exact at x = 0 and x = 1/2.
\* ------------------------------------------------------------------------
RSub(a, b) == RAdd(a, <<-b[1], b[2]>>)
RLe(a, b) == ~RGt(a, b)
\* f32::floor() as i32
RFloor(r) == r[1] \div r[2]

\* SpectralData::new of src/src/spectrum.rs
LegacySpectralDataNew(values) == [wavelengths |-> WAVELENGTHS, values |-> values]

\* the literal 1e-3 of the two loops of resample
Tolerance == <<1, 1000>>

\* the polynomial over a window that starts one sample early
SpragueShiftedWindow(x, y) ==
    LET K(c, v) == RMul(RInt(c), v)
    IN  RAdd(y[2], RMul(x, RDiv(RAdd(K(16, RSub(y[3], y[1])), K(-2, y[4])), RInt(24))))

\* SpectralData::sprague_interpolate(x, y)
SpectralData_sprague_interpolate(x, y) ==
    LET x2 == RMul(x, x)
        x3 == RMul(x2, x)
        x4 == RMul(x3, x)
        x5 == RMul(x4, x)
        K(c, v) == RMul(RInt(c), v)
        Sum(q) == RAdd(q[1], RAdd(q[2], RAdd(q[3], RAdd(q[4], RAdd(q[5], q[6])))))
        a0 == y[3]
        a1 == RDiv(Sum(<<K(2, y[1]), K(-16, y[2]), RZero, K(16, y[4]), K(-2, y[5]), RZero>>),
                   RInt(24))
        a2 == RDiv(Sum(<<K(-1, y[1]), K(16, y[2]), K(-30, y[3]), K(16, y[4]), K(-1, y[5]), RZero>>),
                   RInt(24))
        a3 == RDiv(Sum(<<K(-9, y[1]), K(39, y[2]), K(-70, y[3]), K(66, y[4]), K(-33, y[5]), K(7, y[6])>>),
                   RInt(120))
        a4 == RDiv(Sum(<<K(13, y[1]), K(-64, y[2]), K(126, y[3]), K(-124, y[4]), K(61, y[5]), K(-12, y[6])>>),
                   RInt(120))
        a5 == RDiv(Sum(<<K(-5, y[1]), K(25, y[2]), K(-50, y[3]), K(50, y[4]), K(-25, y[5]), K(5, y[6])>>),
                   RInt(120))
    IN  Sum(<<a0, RMul(a1, x), RMul(a2, x2), RMul(a3, x3), RMul(a4, x4), RMul(a5, x5)>>)

\* padded_values of resample, for non-empty values
PaddedValues(values) ==
    <<values[1], values[1]>> \o values
        \o <<values[Len(values)], values[Len(values)], values[Len(values)]>>

Panicked == [panic |-> TRUE, val |-> RZero]
Value(v) == [panic |-> FALSE, val |-> v]

\* One pass of the first loop of resample, for the target current_wl.  A
\* usize is kept as an integer k, a negative k standing for 2^64 + k: this
\* is what (i + 2) as usize gives for i < -2.  idx + 3 overflows for k in
\* -3..-1: with overflow checks the addition panics, without them it wraps
\* to k + 3.
ResampleAt(self, current_wl, overflow_checks) ==
    LET values == self.values
        n == Len(values)
        padded_values == PaddedValues(values)
        orig_start == self.wavelengths[1]
        orig_step == IF Len(self.wavelengths) > 1
                     THEN self.wavelengths[2] - self.wavelengths[1] ELSE 10
        t == RNorm(current_wl - orig_start, orig_step)
        i == RFloor(t)
        x == RSub(t, RInt(i))
        idx == i + 2
        overflows == idx < 0 /\ idx + 3 >= 0
        idx3 == idx + 3
        below2 == idx >= 0 /\ idx < 2
        beyond == idx3 < 0 \/ idx3 >= Len(padded_values)
    IN  IF overflows /\ overflow_checks THEN Panicked
        ELSE IF below2 \/ beyond
        THEN IF current_wl <= orig_start THEN Value(values[1])
             ELSE IF current_wl >= orig_start + (n - 1) * orig_step THEN Value(values[n])
             ELSE LET i_idx == Max(i, 0)
                  IN  IF i_idx >= n THEN Panicked
                      ELSE LET v0 == values[i_idx + 1]
                               v1 == values[Min(i_idx + 1, n - 1) + 1]
                           IN  Value(RAdd(v0, RMul(x, RSub(v1, v0))))
        ELSE IF idx < 0 THEN Panicked
        ELSE Value(SpectralData_sprague_interpolate(
                      x, SubSeq(padded_values, idx - 1, idx + 4)))

\* the first loop of resample from current_wl on: the values pushed, or a
\* panic
RECURSIVE ResampleLoop(_, _, _, _, _, _)
ResampleLoop(self, current_wl, end, step, overflow_checks, new_values) ==
    IF ~RLe(RInt(current_wl), RAdd(RInt(end), Tolerance)) \/ new_values # new_values
    THEN Value(new_values)
    ELSE LET r == ResampleAt(self, current_wl, overflow_checks)
         IN  IF r.panic THEN Panicked
             ELSE ResampleLoop(self, current_wl + step, end, step, overflow_checks,
                               Append(new_values, r.val))

\* the second loop of resample
RECURSIVE TargetWavelengths(_, _, _)
TargetWavelengths(wl, end, step) ==
    IF ~RLe(RInt(wl), RAdd(RInt(end), Tolerance)) THEN <<>>
    ELSE <<wl>> \o TargetWavelengths(wl + step, end, step)

\* SpectralData::resample; the result is a panic or the new SpectralData
resample(self, start, end, step, overflow_checks) ==
    IF self.values = <<>>
    THEN Value([wavelengths |-> <<>>, values |-> <<>>, mode |-> self.mode])
    ELSE IF self.wavelengths = <<>> THEN Panicked
    ELSE LET new_values == ResampleLoop(self, start, end, step, overflow_checks, <<>>)
         IN  IF new_values.panic THEN Panicked
             ELSE Value([wavelengths |-> TargetWavelengths(start, end, step),
                         values |-> new_values.val,
                         mode |-> self.mode])

\* slice::binary_search_by on strictly increasing wavelengths, over the
\* 0-based range left..right-1: Ok(i) for the element equal to x, else
\* Err(i) with i the place x would be inserted at
RECURSIVE BinarySearch(_, _, _, _)
BinarySearch(wavelengths, x, left, right) ==
    IF left >= right THEN [found |-> FALSE, at |-> left]
    ELSE LET mid == left + (right - left) \div 2
         IN  IF wavelengths[mid + 1] = x THEN [found |-> TRUE, at |-> mid]
             ELSE IF wavelengths[mid + 1] < x
             THEN BinarySearch(wavelengths, x, mid + 1, right)
             ELSE BinarySearch(wavelengths, x, left, mid)

\* sprague::sprague_value
sprague_value(t, y0, y1, y2, y3) ==
    LET t2 == RMul(t, t)
        t3 == RMul(t2, t)
        D(v, c) == RDiv(v, RInt(c))
        a0 == y1
        a1 == RSub(RAdd(D(y0, -6), D(y2, 2)), D(y3, 3))
        a2 == RAdd(RSub(D(y0, 2), y1), D(y2, 2))
        a3 == RAdd(RSub(RAdd(D(y0, -6), D(y1, 2)), D(y2, 2)), D(y3, 6))
    IN  RAdd(RAdd(RAdd(a0, RMul(a1, t)), RMul(a2, t2)), RMul(a3, t3))

\* one output wavelength of sprague::linear_interpolate
LinearAt(wavelengths, intensities, out_wl) ==
    LET idx == BinarySearch(wavelengths, out_wl, 0, Len(wavelengths))
        i == idx.at
    IN  IF idx.found THEN intensities[i + 1]
        ELSE IF i = 0 THEN intensities[1]
        ELSE IF i >= Len(wavelengths) THEN intensities[Len(wavelengths)]
        ELSE LET w1 == wavelengths[i]
                 w2 == wavelengths[i + 1]
                 y1 == intensities[i]
                 y2 == intensities[i + 1]
                 t == RNorm(out_wl - w1, w2 - w1)
             IN  RAdd(y1, RMul(t, RSub(y2, y1)))

\* sprague::linear_interpolate
linear_interpolate(wavelengths, intensities, output_wavelengths) ==
    Vec([j \in 1..Len(output_wavelengths) |->
            LinearAt(wavelengths, intensities, output_wavelengths[j])])

\* one output wavelength of sprague::sprague_interpolate
SpragueAt(wavelengths, intensities, out_wl) ==
    LET idx == BinarySearch(wavelengths, out_wl, 0, Len(wavelengths))
        i == idx.at
    IN  IF idx.found THEN intensities[i + 1]
        ELSE IF i = 0 THEN intensities[1]
        ELSE IF i >= Len(wavelengths) THEN intensities[Len(wavelengths)]
        ELSE LET i0 == Max(i - 2, 0)
                 i1 == Max(i - 1, 0)
                 i2 == i
                 i3 == IF i < Len(wavelengths) - 1 THEN i + 1 ELSE Len(wavelengths) - 1
                 h == wavelengths[i2 + 1] - wavelengths[i1 + 1]
                 t == RNorm(out_wl - wavelengths[i1 + 1], h)
             IN  sprague_value(t, intensities[i0 + 1], intensities[i1 + 1],
                               intensities[i2 + 1], intensities[i3 + 1])

\* sprague::sprague_interpolate(wavelengths, intensities, output_wavelengths)
sprague_interpolate(wavelengths, intensities, output_wavelengths) ==
    IF Len(wavelengths) < 4
    THEN linear_interpolate(wavelengths, intensities, output_wavelengths)
    ELSE Vec([j \in 1..Len(output_wavelengths) |->
                 SpragueAt(wavelengths, intensities, output_wavelengths[j])])

\* The functions applied on their own.  Sample vectors and 10 nm grids:
Samples(n) == Vec([i \in 1..n |-> RInt(3840 * ((3 * i) % 7))])
Grid(first, n) == Vec([i \in 1..n |-> first + 10 * (i - 1)])

\* lengths of the vectors handed to the constructors
ValueLens == {0, 1, 36, 41, 42}

\* SpectralData values resample is called on, built field by field
ShortSpectrum == [wavelengths |-> Grid(380, 6), values |-> Samples(6), mode |-> Emissive]
OnePoint == [wavelengths |-> Grid(380, 1), values |-> Samples(1), mode |-> Reflective]
LongSpectrum == [wavelengths |-> Grid(380, 9), values |-> Samples(9), mode |-> Reflective]
ResampleSources == {ShortSpectrum, OnePoint, LongSpectrum}
ResampleStarts == {320, 330, 340, 350, 360, 370, 380, 400}
ResampleEnds == {420, 430, 470}
ResampleSteps == {5, 10, 40}

\* arguments of sprague::sprague_interpolate
SpragueGrids == {Grid(380, 5), Grid(380, 3)}
SpragueOutputs ==
    { Grid(380, 5), Grid(360, 8), <<385, 395, 405>>, <<350, 380, 415, 420, 425, 500>> }

InitSpectrum ==
    /\ DriverInit /\ store = StoreAbsent
    /\ GuiIdle
    /\ output = None
    /\ \/ \E n \in ValueLens : input = [op |-> "new", values |-> Samples(n)]
       \/ \E n \in ValueLens : input = [op |-> "legacy_new", values |-> Samples(n)]
       \/ \E n \in ValueLens, mode \in SpectrumModes :
              input = [op |-> "with_mode", values |-> Samples(n), mode |-> mode]
       \/ \E self \in ResampleSources, start \in ResampleStarts, end \in ResampleEnds,
             step \in ResampleSteps, overflow_checks \in BOOLEAN :
              input = [op |-> "resample", self |-> self, start |-> start, end |-> end,
                       step |-> step, overflow_checks |-> overflow_checks]
       \/ \E wavelengths \in SpragueGrids, output_wavelengths \in SpragueOutputs :
              input = [op |-> "sprague_interpolate", wavelengths |-> wavelengths,
                       intensities |-> Samples(Len(wavelengths)),
                       output_wavelengths |-> output_wavelengths]

New ==
    /\ output = None /\ input.op = "new"
    /\ output' = Some(SpectralDataNew(input.values))
    /\ UNCHANGED <<driverVars, guiVars, input>>

LegacyNew ==
    /\ output = None /\ input.op = "legacy_new"
    /\ output' = Some(LegacySpectralDataNew(input.values))
    /\ UNCHANGED <<driverVars, guiVars, input>>

WithMode ==
    /\ output = None /\ input.op = "with_mode"
    /\ output' = Some(SpectralDataWithMode(input.values, input.mode))
    /\ UNCHANGED <<driverVars, guiVars, input>>

Resample ==
    /\ output = None /\ input.op = "resample"
    /\ output' = Some(resample(input.self, input.start, input.end, input.step,
                               input.overflow_checks))
    /\ UNCHANGED <<driverVars, guiVars, input>>

SpragueInterpolate ==
    /\ output = None /\ input.op = "sprague_interpolate"
    /\ output' = Some(sprague_interpolate(input.wavelengths, input.intensities,
                                          input.output_wavelengths))
    /\ UNCHANGED <<driverVars, guiVars, input>>

\* SpectralData::set_mode on a SpectralData that new, with_mode or resample
\* returned: self.mode = mode
SetMode ==
    /\ IsSome(output)
    /\ \E mode \in SpectrumModes :
          \/ /\ input.op \in {"new", "with_mode"}
             /\ output' = Some([Unwrap(output) EXCEPT !.mode = mode])
          \/ /\ input.op = "resample" /\ ~Unwrap(output).panic
             /\ output' = Some([Unwrap(output) EXCEPT !.val.mode = mode])
    /\ UNCHANGED <<driverVars, guiVars, input>>

NextSpectrum ==
    \/ New
    \/ LegacyNew
    \/ WithMode
    \/ SetMode
    \/ Resample
    \/ SpragueInterpolate

SpecSpectrum == InitSpectrum /\ [][NextSpectrum]_vars

\* C15: every Spectrum the constructors, measure (whose result is
\* SpectralData::new of the 36 bands) and resample produce has as many
\* wavelengths as values.
C15_WavelengthsMatchValues ==
    IsSome(output) =>
        LET r == Unwrap(output)
        IN  CASE input.op \in {"new", "legacy_new", "with_mode"} ->
                    Len(r.wavelengths) = Len(r.values)
              [] input.op = "resample" ->
                    r.panic \/ Len(r.val.wavelengths) = Len(r.val.values)
              [] OTHER -> TRUE

\* the place of wl in wavelengths, 0 if it is not among them
PlaceOf(wl, wavelengths) ==
    IF \E k \in 1..Len(wavelengths) : wavelengths[k] = wl
    THEN CHOOSE k \in 1..Len(wavelengths) : wavelengths[k] = wl
    ELSE 0

\* targets outside the span of wavelengths carry the first or last of values
ClampedOutside(targets, results, wavelengths, values) ==
    \A j \in 1..Len(targets) :
        /\ targets[j] < wavelengths[1] => results[j] = values[1]
        /\ targets[j] > wavelengths[Len(wavelengths)] => results[j] = values[Len(values)]

\* C18: for every target wavelength below the first or above the last
\* source wavelength, resampling returns the first or the last source
\* value and does not fail, however far outside the target lies.
C18_OutsideDomainClamps ==
    IsSome(output) =>
        LET r == Unwrap(output)
        IN  CASE input.op = "resample" ->
                    IF r.panic THEN FALSE
                    ELSE ClampedOutside(r.val.wavelengths, r.val.values,
                                        input.self.wavelengths, input.self.values)
              [] input.op = "sprague_interpolate" ->
                    ClampedOutside(input.output_wavelengths, r,
                                   input.wavelengths, input.intensities)
              [] OTHER -> TRUE

\* targets that are source wavelengths carry the source value
SamplesReproduced(targets, results, wavelengths, values) ==
    \A j \in 1..Len(targets) :
        LET k == PlaceOf(targets[j], wavelengths)
        IN  k # 0 => results[j] = values[k]

\* C19: interpolating at a wavelength equal to a source sample wavelength
\* returns that sample's value, for every sample index, the first and the
\* last included, by resample and by sprague_interpolate.
C19_SamplesReproduced ==
    IsSome(output) =>
        LET r == Unwrap(output)
        IN  CASE input.op = "resample" ->
                    r.panic \/ SamplesReproduced(r.val.wavelengths, r.val.values,
                                                 input.self.wavelengths, input.self.values)
              [] input.op = "sprague_interpolate" ->
                    SamplesReproduced(input.output_wavelengths, r,
                                      input.wavelengths, input.intensities)
              [] OTHER -> TRUE

\* resample over the whole of a six-point source and beyond: the first and
\* the last sample come back, and so does a sample in between
C19_Witness ==
    /\ IsSome(output) /\ input.op = "resample"
    /\ input.self = ShortSpectrum /\ input.start = 380 /\ input.step = 10
    /\ input.end = 470
    /\ ~Unwrap(output).panic
    /\ Unwrap(output).val.values[1] = ShortSpectrum.values[1]
    /\ Unwrap(output).val.values[3] = ShortSpectrum.values[3]
    /\ Unwrap(output).val.values[6] = ShortSpectrum.values[6]

\* ------------------------------------------------------------------------
\* Cam02Ucs::clip_to_gamut, one predicate call per step.  The colour is
\* input.self, the predicate input.gamut: a box |a'| <= limit, |b'| <= limit
\* for J' up to j_max, which is monotone along the ray to the neutral axis.
\* output holds the locals of the call.  Coordinates are whole numbers
\* below 2^10, whose products with the scales k/1024 are exact in f32.
\* ------------------------------------------------------------------------
\* the closure is_in_gamut
is_in_gamut(gamut, j, a, b) ==
    /\ RLe(j, RInt(gamut.j_max))
    /\ RLe(a, RInt(gamut.limit)) /\ RLe(RInt(-gamut.limit), a)
    /\ RLe(b, RInt(gamut.limit)) /\ RLe(RInt(-gamut.limit), b)

\* a bisection that stops one iteration early
NineIterations == 10 - 1
\* for _ in 0..10
ClipIterations == 10

GamutJ == {50, 120}
GamutA == {-48, 0, 100, 1000}
GamutB == {-300, 0, 64}
GamutLimits == {10, 37, 64, 2000}
GamutJMax == {100}

InitGamut ==
    /\ DriverInit /\ store = StoreAbsent
    /\ GuiIdle
    /\ input \in [self : [j_prime : {RInt(j) : j \in GamutJ},
                          a_prime : {RInt(a) : a \in GamutA},
                          b_prime : {RInt(b) : b \in GamutB}],
                  gamut : [limit : GamutLimits, j_max : GamutJMax]]
    /\ output = None

\* the first call of the predicate: return *self, or set up the search
ClipFirstTest ==
    /\ output = None
    /\ LET self == input.self
       IN  IF is_in_gamut(input.gamut, self.j_prime, self.a_prime, self.b_prime)
           THEN output' = Some([pc |-> "returned", calls |-> 1, result |-> self,
                                low |-> RZero, high |-> ROne,
                                best_a |-> RZero, best_b |-> RZero, iter |-> 0])
           ELSE output' = Some([pc |-> "loop", calls |-> 1, result |-> self,
                                low |-> RZero, high |-> ROne,
                                best_a |-> RZero, best_b |-> RZero, iter |-> 0])
    /\ UNCHANGED <<driverVars, guiVars, input>>

\* one iteration of the for loop
ClipIterate ==
    /\ IsSome(output) /\ Unwrap(output).pc = "loop"
    /\ Unwrap(output).iter < ClipIterations
    /\ LET st == Unwrap(output)
           self == input.self
           mid == RDiv(RAdd(st.low, st.high), RInt(2))
           test_a == RMul(self.a_prime, mid)
           test_b == RMul(self.b_prime, mid)
       IN  IF is_in_gamut(input.gamut, self.j_prime, test_a, test_b)
           THEN output' = Some([st EXCEPT !.best_a = test_a, !.best_b = test_b,
                                          !.low = mid,
                                          !.iter = @ + 1, !.calls = @ + 1])
           ELSE output' = Some([st EXCEPT !.high = mid,
                                          !.iter = @ + 1, !.calls = @ + 1])
    /\ UNCHANGED <<driverVars, guiVars, input>>

\* the Self { .. } built after the loop
ClipReturn ==
    /\ IsSome(output) /\ Unwrap(output).pc = "loop"
    /\ ~(Unwrap(output).iter < ClipIterations)
    /\ LET st == Unwrap(output)
       IN  output' = Some([st EXCEPT !.pc = "returned",
                                     !.result = [j_prime |-> input.self.j_prime,
                                                 a_prime |-> st.best_a,
                                                 b_prime |-> st.best_b]])
    /\ UNCHANGED <<driverVars, guiVars, input>>

NextGamut ==
    \/ ClipFirstTest
    \/ ClipIterate
    \/ ClipReturn

SpecGamut == InitGamut /\ [][NextGamut]_vars

\* the colour of input.self with its chroma scaled by k/1024
Scaled(k) ==
    [j_prime |-> input.self.j_prime,
     a_prime |-> RMul(input.self.a_prime, RNorm(k, 1024)),
     b_prime |-> RMul(input.self.b_prime, RNorm(k, 1024))]

HoldsAt(k) ==
    LET c == Scaled(k) IN is_in_gamut(input.gamut, c.j_prime, c.a_prime, c.b_prime)

\* C20: clip_to_gamut returns its input unchanged, after one call of the
\* predicate, when the predicate holds for it; otherwise it calls the
\* predicate exactly 10 more times and returns (J', alpha a', alpha b')
\* where alpha = k/1024 is the largest such scale at which the predicate
\* holds (the next one, (k+1)/1024, fails), or 0 when it holds at none.
C20_ClipToGamutBisection ==
    (IsSome(output) /\ Unwrap(output).pc = "returned") =>
        LET st == Unwrap(output)
        IN  IF HoldsAt(1024)
            THEN st.result = input.self /\ st.calls = 1
            ELSE /\ st.calls = 11
                 /\ \E k \in 0..1023 :
                      /\ st.result = Scaled(k)
                      /\ k = 0 \/ HoldsAt(k)
                      /\ ~HoldsAt(k + 1)
                      /\ \A m \in 1..1023 : HoldsAt(m) => m <= k

\* a colour outside the box comes back with its chroma scaled to 37/100
\* rounded down to 1024ths
C20_Witness ==
    /\ IsSome(output) /\ Unwrap(output).pc = "returned"
    /\ Unwrap(output).calls = 11
    /\ input.self.a_prime = RInt(100) /\ input.self.b_prime = RInt(64)
    /\ input.gamut.limit = 37 /\ input.self.j_prime = RInt(50)
    /\ Unwrap(output).result = Scaled(378)

\* Munki::new has returned Ok and nothing was called since
InitDone == pc = "idle" /\ call.op = "new" /\ ret.ok

\* the file for the serial holds a record of 137 and 36 entries
RecordUsable ==
    /\ store.state = "present"
    /\ Len(store.dark_ref) = 137
    /\ Len(store.white_cal_factors) = 36

\* C17: after init, dark_ref and white_scale are both present, and are the
\* persisted ones, exactly when a record for the serial was loaded with
\* dark_ref of length 137 and white factors of length 36; in every other
\* case both are absent; and init never fails because of the record.
C17_AutoLoadValidated ==
    /\ InitDone =>
          IF RecordUsable
          THEN /\ dark_ref = Some(store.dark_ref)
               /\ white_cal_factors = Some(store.white_cal_factors)
          ELSE dark_ref = None /\ white_cal_factors = None
    /\ (pc = "idle" /\ call.op = "new" /\ ~ret.ok) =>
          /\ ret.err \in {ErrUsb, ErrCalibration}
          /\ ~HasMunki

\* init succeeded next to a record whose dark_ref has 2 entries: nothing
\* was loaded
C17_Witness ==
    /\ InitDone
    /\ store.state = "present" /\ Len(store.dark_ref) = 2
    /\ dark_ref = None /\ white_cal_factors = None

\* ------------------------------------------------------------------------
\* IccProfile::to_bytes and its tag encoders.  A profile is a record
\* [description, white_point, red_primary, green_primary, blue_primary,
\* gamma, lut]; description is its UTF-8 bytes, lut an Option of
\* [grid_points, data].
\* ------------------------------------------------------------------------
\* u32::to_be_bytes and u16::to_be_bytes
U32ToBe(v) == <<v \div 16777216, (v \div 65536) % 256, (v \div 256) % 256, v % 256>>
U16ToBe(v) == <<v \div 256, v % 256>>
\* &[0u8; n]
Zeros(n) == Vec([k \in 1..n |-> 0])

\* floor(rem * 2^bits / den) for 0 <= rem < den, one doubling at a time
RECURSIVE ScaleTrunc(_, _, _)
ScaleTrunc(rem, den, bits) ==
    IF bits = 0 THEN 0
    ELSE ((2 * rem) \div den) * Pow2(bits - 1) + ScaleTrunc((2 * rem) % den, den, bits - 1)

\* (val * 2^bits) as an integer type: towards zero
TruncScaled(val, bits) ==
    LET n == Abs(val[1])
        m == (n \div val[2]) * Pow2(bits) + ScaleTrunc(n % val[2], val[2], bits)
    IN  IF val[1] >= 0 THEN m ELSE -m

\* write_s15fixed16: (val * 65536.0) as i32, big-endian, for |val| < 32768
write_s15fixed16(val) ==
    LET fixed == TruncScaled(val, 16)
    IN  IF fixed >= 0 THEN U32ToBe(fixed)
        ELSE LET low == U32ToBe(fixed + 2147483647 + 1)
             IN  <<low[1] + 128, low[2], low[3], low[4]>>

\* IccProfile::encode_desc
encode_desc(self) ==
    <<100, 101, 115, 99>> \o Zeros(4)
        \o U32ToBe(Len(self.description) + 1)
        \o self.description \o <<0>> \o Zeros(67)

\* IccProfile::encode_text
encode_text(text) == <<116, 101, 120, 116>> \o Zeros(4) \o text \o <<0>>

\* IccProfile::encode_xyz
encode_xyz(xyz) ==
    <<88, 89, 90, 32>> \o Zeros(4)
        \o write_s15fixed16(xyz[1]) \o write_s15fixed16(xyz[2]) \o write_s15fixed16(xyz[3])

\* IccProfile::encode_trc: (self.gamma * 256.0) as u16 saturates
encode_trc(self) ==
    LET g == Min(Max(TruncScaled(self.gamma, 8), 0), 65535)
    IN  <<99, 117, 114, 118>> \o Zeros(4) \o U32ToBe(1) \o U16ToBe(g) \o Zeros(2)

\* a rational with a power of two as denominator as f32, and back
F32OfR(r) == F32Round(r[1] < 0, Abs(r[1]), 1 - BitLen(r[2]), FALSE)
ROfF32(a) == IF a[2] >= 0 THEN RInt(a[1] * Pow2(a[2])) ELSE RNorm(a[1], Pow2(-a[2]))

\* f32 NaN among the rationals: 0 / 0
NaN == <<0, 0>>
IsNaN(val) == val[2] = 0

\* one CLUT entry: (val.clamp(0.0, 1.9999) * 32768.0) as u16; clamp keeps a
\* NaN and `as u16` makes it 0
ClutEntry(val) ==
    LET top == <<16776377, 8388608>>
        clamped == IF val[1] < 0 THEN RZero
                   ELSE IF F32Lt(F32OfR(top), F32OfR(val)) THEN top ELSE val
    IN  IF IsNaN(val) THEN U16ToBe(0) ELSE U16ToBe(TruncScaled(clamped, 15))

RECURSIVE Clut(_, _)
Clut(data, k) ==
    IF k > Len(data) THEN <<>> ELSE ClutEntry(data[k]) \o Clut(data, k + 1)

IdentityTables == <<0, 0, 255, 255, 0, 0, 255, 255, 0, 0, 255, 255>>

\* IccProfile::encode_lut16
encode_lut16(lut) ==
    <<109, 102, 116, 50>> \o Zeros(4)
        \o <<3, 3, lut.grid_points, 0>>
        \o write_s15fixed16(ROne) \o write_s15fixed16(RZero) \o write_s15fixed16(RZero)
        \o write_s15fixed16(RZero) \o write_s15fixed16(ROne) \o write_s15fixed16(RZero)
        \o write_s15fixed16(RZero) \o write_s15fixed16(RZero) \o write_s15fixed16(ROne)
        \o U16ToBe(2) \o U16ToBe(2)
        \o IdentityTables
        \o Clut(lut.data, 1)
        \o IdentityTables

\* "Copyright (c) 2025 spectro-rs"
CopyrightText ==
    <<67, 111, 112, 121, 114, 105, 103, 104, 116, 32, 40, 99, 41, 32,
      50, 48, 50, 53, 32, 115, 112, 101, 99, 116, 114, 111, 45, 114, 115>>

\* the 124 header bytes after the size placeholder
IccHeader ==
    <<115, 99, 114, 115>> \o <<2, 64, 0, 0>> \o <<109, 110, 116, 114>>
        \o <<82, 71, 66, 32>> \o <<88, 89, 90, 32>>
        \o Zeros(12)
        \o <<97, 99, 115, 112>> \o <<65, 80, 80, 76>> \o Zeros(4)
        \o <<110, 111, 110, 101>> \o <<110, 111, 110, 101>>
        \o Zeros(8) \o Zeros(4)
        \o write_s15fixed16(<<1011037, 1048576>>) \o write_s15fixed16(ROne)
        \o write_s15fixed16(<<13839525, 16777216>>)
        \o <<115, 99, 114, 115>> \o Zeros(44)

\* the vec! of (signature, data) and the push of A2B0
IccTags(self) ==
    <<[sig |-> <<100, 101, 115, 99>>, data |-> encode_desc(self)],
      [sig |-> <<119, 116, 112, 116>>, data |-> encode_xyz(self.white_point)],
      [sig |-> <<114, 88, 89, 90>>, data |-> encode_xyz(self.red_primary)],
      [sig |-> <<103, 88, 89, 90>>, data |-> encode_xyz(self.green_primary)],
      [sig |-> <<98, 88, 89, 90>>, data |-> encode_xyz(self.blue_primary)],
      [sig |-> <<114, 84, 82, 67>>, data |-> encode_trc(self)],
      [sig |-> <<103, 84, 82, 67>>, data |-> encode_trc(self)],
      [sig |-> <<98, 84, 82, 67>>, data |-> encode_trc(self)],
      [sig |-> <<99, 112, 114, 116>>, data |-> encode_text(CopyrightText)]>>
    \o (IF IsSome(self.lut)
        THEN <<[sig |-> <<65, 50, 66, 48>>, data |-> encode_lut16(Unwrap(self.lut))]>>
        ELSE <<>>)

\* the tag table loop from entry k on, offset being the running offset
RECURSIVE TagTable(_, _, _)
TagTable(tags, k, offset) ==
    IF k > Len(tags) THEN <<>>
    ELSE tags[k].sig \o U32ToBe(offset) \o U32ToBe(Len(tags[k].data))
            \o TagTable(tags, k + 1, offset + Len(tags[k].data))

RECURSIVE TagData(_, _)
TagData(tags, k) ==
    IF k > Len(tags) THEN <<>> ELSE tags[k].data \o TagData(tags, k + 1)

\* let mut offset = 128 + 4 + tags.len() as u32 * 12
TagDataStartNoCount(tags) == 128 + Len(tags) * 12
TagDataStart(tags) == 128 + 4 + Len(tags) * 12

\* IccProfile::to_bytes
to_bytes(self) ==
    LET tags == IccTags(self)
        body == IccHeader \o U32ToBe(Len(tags))
                    \o TagTable(tags, 1, TagDataStart(tags))
                    \o TagData(tags, 1)
    IN  U32ToBe(Len(body) + 4) \o body

\* Lut3D::new followed by fill with a constant, and a hand-built Lut3D
\* whose data is not grid_points^3 * 3 long
Lut3DNew(grid_points, val) ==
    [grid_points |-> grid_points,
     data |-> Vec([k \in 1..(grid_points * grid_points * grid_points * 3) |-> val])]
IccLuts ==
    {None, Some([grid_points |-> 2, data |-> <<ROne, <<1, 2>>>>])}
        \cup {Some(Lut3DNew(n, v)) : n \in 0..3, v \in {<<1, 2>>, <<-1, 1>>, <<5, 2>>}}

\* descriptions as UTF-8 bytes: "", "A", "Test", and one with a 2-byte char
IccDescriptions == {<<>>, <<65>>, <<84, 101, 115, 116>>, <<195, 169, 99, 114, 97, 110>>}
IccGammas == {ROne, <<9227469, 4194304>>, <<300, 1>>}

\* IccProfile::new_srgb_like with the description, gamma and lut replaced;
\* every f32 literal is the rational the nearest f32 holds
IccProfileOf(description, gamma, lut) ==
    [description |-> description,
     white_point |-> <<<<1011037, 1048576>>, ROne, <<13839525, 16777216>>>>,
     red_primary |-> <<<<14631937, 33554432>>, <<14581, 65536>>, <<14942191, 1073741824>>>>,
     green_primary |-> <<<<25241, 65536>>, <<12027137, 16777216>>, <<6514687, 67108864>>>>,
     blue_primary |-> <<<<293, 2048>>, <<16269309, 268435456>>, <<11980545, 16777216>>>>,
     gamma |-> gamma,
     lut |-> lut]

\* r_idx as f32 / (n - 1) as f32; 0.0 / 0.0 on a grid of one point
GridCoord(idx, n) ==
    IF n = 1 THEN NaN ELSE ROfF32(F32Div(F32OfInt(idx), F32OfInt(n - 1)))

\* the points (r, g, b) the loops of fill visit on a grid of n points
GridPoints(n) ==
    LET axis == {GridCoord(idx, n) : idx \in 0..(n - 1)}
    IN  axis \X axis \X axis

\* Lut3D::fill with the closure f, which returns [x, y, z] at a point.  The
\* loops write data[0], data[1], ... in this order; the first index past the
\* end of a data that is shorter than grid_points^3 * 3 panics, with the
\* entries before it written.
fill(self, f) ==
    LET n == self.grid_points
        Entry(k) ==
            LET c == (k - 1) \div 3
            IN  f[<<GridCoord(c \div (n * n), n), GridCoord((c \div n) % n, n),
                    GridCoord(c % n, n)>>][((k - 1) % 3) + 1]
    IN  [panic |-> Len(self.data) < n * n * n * 3,
         val |-> [grid_points |-> n,
                  data |-> Vec([k \in 1..Len(self.data) |->
                                   IF k <= n * n * n * 3 THEN Entry(k) ELSE self.data[k]])]]

\* r.powf(gamma) for gamma > 0 at the coordinates of a grid of up to two
\* points: 0.0, 1.0, and the NaN of a grid of one point
powf(r, gamma) ==
    CASE IsNaN(r) -> NaN
      [] r = RZero -> RZero
      [] r = ROne -> ROne

\* the closure of fill_lut_from_model and of fill_lut_perceptual (which
\* computes _ucs and returns the same [x, y, z]), row i of the sum
ModelXyz(self, r, g, b) ==
    LET rl == powf(r, self.gamma)
        gl == powf(g, self.gamma)
        bl == powf(b, self.gamma)
        Row(i) ==
            ROfF32(F32Add(F32Add(F32Mul(F32OfR(rl), F32OfR(self.red_primary[i])),
                                 F32Mul(F32OfR(gl), F32OfR(self.green_primary[i]))),
                          F32Mul(F32OfR(bl), F32OfR(self.blue_primary[i]))))
    IN  IF IsNaN(rl) \/ IsNaN(gl) \/ IsNaN(bl) THEN <<NaN, NaN, NaN>>
        ELSE <<Row(1), Row(2), Row(3)>>

\* IccProfile::fill_lut_from_model
fill_lut_from_model(self, grid_points) ==
    LET f == [c \in GridPoints(grid_points) |-> ModelXyz(self, c[1], c[2], c[3])]
    IN  [self EXCEPT !.lut = Some(fill(Lut3DNew(grid_points, RZero), f).val)]

\* IccProfile::fill_lut_perceptual
fill_lut_perceptual(self, grid_points) ==
    LET f == [c \in GridPoints(grid_points) |-> ModelXyz(self, c[1], c[2], c[3])]
    IN  [self EXCEPT !.lut = Some(fill(Lut3DNew(grid_points, RZero), f).val)]

\* grid sizes handed to the two fill_lut functions
FillGrids == 0..2

\* input is the profile; output is None, or what the last call returned: the
\* bytes of to_bytes, or a panic
InitIcc ==
    /\ DriverInit /\ store = StoreAbsent
    /\ GuiIdle
    /\ \E d \in IccDescriptions, g \in IccGammas, l \in IccLuts :
          input = IccProfileOf(d, g, l)
    /\ output = None

IccRunning == IF output = None THEN TRUE ELSE ~Unwrap(output).panic

ToBytes ==
    /\ IccRunning
    /\ output' = Some(Value(to_bytes(input)))
    /\ UNCHANGED <<driverVars, guiVars, input>>

FillLutFromModel ==
    /\ IccRunning
    /\ \E grid_points \in FillGrids : input' = fill_lut_from_model(input, grid_points)
    /\ UNCHANGED <<driverVars, guiVars, output>>

FillLutPerceptual ==
    /\ IccRunning
    /\ \E grid_points \in FillGrids : input' = fill_lut_perceptual(input, grid_points)
    /\ UNCHANGED <<driverVars, guiVars, output>>

\* Lut3D::fill on the profile's lut with the closure |r, g, b| [r, g, b]
Fill ==
    /\ IccRunning
    /\ IsSome(input.lut)
    /\ LET f == [c \in GridPoints(Unwrap(input.lut).grid_points) |-> c]
           res == fill(Unwrap(input.lut), f)
       IN  /\ input' = [input EXCEPT !.lut = Some(res.val)]
           /\ output' = IF res.panic THEN Some(Panicked) ELSE output
    /\ UNCHANGED <<driverVars, guiVars>>

NextIcc == ToBytes \/ FillLutFromModel \/ FillLutPerceptual \/ Fill

SpecIcc == InitIcc /\ [][NextIcc]_vars

\* reading the produced stream back: big-endian u32 at a 0-based offset,
\* and the three fields of tag table entry k (0-based)
BeU32At(b, off) ==
    b[off + 1] * 16777216 + b[off + 2] * 65536 + b[off + 3] * 256 + b[off + 4]
TagSigAt(b, k) == SubSeq(b, 132 + 12 * k + 1, 132 + 12 * k + 4)
TagOffsetAt(b, k) == BeU32At(b, 132 + 12 * k + 4)
TagSizeAt(b, k) == BeU32At(b, 132 + 12 * k + 8)

IccLayout(self, b) ==
    LET count == BeU32At(b, 128)
    IN  /\ Len(b) >= 132
        /\ BeU32At(b, 0) = Len(b)
        /\ SubSeq(b, 37, 40) = <<97, 99, 115, 112>>
        /\ count = IF IsSome(self.lut) THEN 10 ELSE 9
        /\ Len(b) >= 132 + 12 * count
        /\ TagOffsetAt(b, 0) = 132 + 12 * count
        /\ \A k \in 1..(count - 1) :
              TagOffsetAt(b, k) = TagOffsetAt(b, k - 1) + TagSizeAt(b, k - 1)
        /\ TagOffsetAt(b, count - 1) + TagSizeAt(b, count - 1) = Len(b)
        /\ IsSome(self.lut) =>
              /\ TagSigAt(b, 9) = <<65, 50, 66, 48>>
              /\ SubSeq(b, TagOffsetAt(b, 9) + 1, TagOffsetAt(b, 9) + 4)
                    = <<109, 102, 116, 50>>

\* a step in which to_bytes returned a stream
ToBytesReturned == output' # output /\ ~Unwrap(output').panic

\* C21: in the bytes produced by to_bytes the first four bytes hold the total
\* length, the tag count is at offset 128 after a 128-byte header, the first
\* tag offset is 132 + 12*count, every next offset is the previous offset plus
\* the previous size, the last offset plus size is the total length, and the
\* count is 9 without a LUT and 10, ending with A2B0 of type mft2, with one.
C21_TagTableDelimitsData ==
    [][ToBytesReturned => IccLayout(input, Unwrap(output').val)]_vars

\* to_bytes has returned the stream of new_srgb_like("Test") after
\* fill_lut_from_model(2): 626 bytes, 10 tags, the last one of 76 + 2 * 24
\* bytes
C21_Witness ==
    /\ IsSome(output) /\ ~Unwrap(output).panic
    /\ Unwrap(output).val = to_bytes(input)
    /\ input = fill_lut_from_model(IccProfileOf(<<84, 101, 115, 116>>, <<9227469, 4194304>>, None), 2)
    /\ BeU32At(Unwrap(output).val, 128) = 10
    /\ Len(Unwrap(output).val) = 626
    /\ TagSizeAt(Unwrap(output).val, 9) = 76 + 2 * 24

\* ------------------------------------------------------------------------
\* generate_daylight_5nm: the daylight reference SPD on the 95-point grid
\* 360..830 nm, in f32 as the function computes it.  The tables S0, S1, S2
\* hold tenths (33.4 is 334).
\* ------------------------------------------------------------------------
DaylightS0 ==
    <<0, 0, 334, 374, 1174, 1178, 1149, 1159, 1088, 1093, 1078, 1048, 1077,
      1044, 1040, 1000, 960, 951, 891, 905, 903, 884, 840, 851, 819, 826,
      849, 813, 719, 743, 764, 633, 717, 770, 652, 477, 686, 650, 660, 610,
      533>>
DaylightS1 ==
    <<0, 0, -11, -5, -7, -12, -26, -29, -28, -45, -61, -76, -97, -117,
      -122, -136, -120, -133, -129, -106, -116, -108, -81, -103, -110,
      -115, -108, -109, -88, -73, -129, -158, -151, -122, -102, -86, -120,
      -146, -151, -149, -137>>
DaylightS2 ==
    <<0, 0, -21, -19, -11, -22, -35, -35, -33, -20, -12, -11, -5, 2, 5, 21,
      32, 41, 47, 51, 67, 73, 86, 98, 102, 149, 181, 159, 168, 242, 317,
      153, 189, 212, 156, 83, 189, 146, 155, 154, 146>>

\* table[k] as f32, k 0-based: the literal of the table
TableAt(table, k) == F32Dec(table[k + 1], 10)

\* f32::powi: square and multiply, r being the product so far
RECURSIVE powi(_, _, _)
powi(a, n, r) ==
    LET r1 == IF n % 2 = 1 THEN F32Mul(r, a) ELSE r
    IN  IF n \div 2 = 0 THEN r1 ELSE powi(F32Mul(a, a), n \div 2, r1)

\* x_d by the branch on temp <= 7000.0
DaylightXd(temp) ==
    LET t == powi(temp, 3, F32OfInt(1))
        s == powi(temp, 2, F32OfInt(1))
    IN  IF F32Le(temp, F32OfInt(7000))
        THEN F32Add(F32Add(F32Add(F32Div(F32Neg(F32Mul(F32OfInt(46070), F32OfInt(100000))), t),
                                  F32Div(F32OfInt(2967800), s)),
                           F32Div(F32Dec(9911, 100), temp)),
                    F32Dec(244063, 1000000))
        ELSE F32Add(F32Add(F32Add(F32Div(F32Neg(F32Mul(F32OfInt(20064), F32OfInt(100000))), t),
                                  F32Div(F32OfInt(1901800), s)),
                           F32Div(F32Dec(24748, 100), temp)),
                    F32Dec(237040, 1000000))

\* y_d from x_d
DaylightYd(x_d) ==
    F32Sub(F32Add(F32Mul(F32Mul(F32OfInt(-3), x_d), x_d),
                  F32Mul(F32Dec(2870, 1000), x_d)),
           F32Dec(275, 1000))

\* the denominator written in both m1 and m2
DaylightDen(x_d, y_d) ==
    F32Sub(F32Add(F32Dec(241, 10000), F32Mul(F32Dec(2562, 10000), x_d)),
           F32Mul(F32Dec(7341, 10000), y_d))

DaylightM1(x_d, y_d) ==
    F32Div(F32Add(F32Sub(F32Dec(-13515, 10000), F32Mul(F32Dec(17703, 10000), x_d)),
                  F32Mul(F32Dec(59114, 10000), y_d)),
           DaylightDen(x_d, y_d))

DaylightM2(x_d, y_d) ==
    F32Div(F32Add(F32Sub(F32Dec(300, 10000), F32Mul(F32Dec(314424, 10000), x_d)),
                  F32Mul(F32Dec(300717, 10000), y_d)),
           DaylightDen(x_d, y_d))

\* the closure get_val
get_val(table, idx, x) ==
    IF idx < 0 THEN TableAt(table, 0)
    ELSE IF idx >= 40 THEN TableAt(table, 40)
    ELSE LET v0 == TableAt(table, idx)
             v1 == TableAt(table, idx + 1)
         IN  F32Add(v0, F32Mul(x, F32Sub(v1, v0)))

\* one iteration of the loop over i in 0..95: the three components and
\* spd[i]
DaylightAt(i, m1, m2) ==
    LET wl == F32OfInt(360 + i * 5)
        t == F32Div(F32Sub(wl, F32OfInt(380)), F32OfInt(10))
        idx == F32Floor(t)
        x == F32Sub(t, F32OfInt(idx))
        s0 == get_val(DaylightS0, idx, x)
        s1 == get_val(DaylightS1, idx, x)
        s2 == get_val(DaylightS2, idx, x)
        sum == F32Add(F32Add(s0, F32Mul(m1, s1)), F32Mul(m2, s2))
    IN  [s0 |-> s0, s1 |-> s1, s2 |-> s2,
         spd |-> IF F32Lt(sum, F32Zero) THEN F32Zero ELSE sum]

DaylightPoints == 95
\* correlated colour temperatures handed in, in kelvin
DaylightTemps == {2700, 4000, 5000, 6500, 7000, 7500, 10000, 25000}

\* input is temp; output is None until the prelude has run, then m1 and m2
\* with the part of spd written so far, the components of each entry next
\* to it
InitDaylight ==
    /\ DriverInit /\ store = StoreAbsent
    /\ GuiIdle
    /\ \E temp \in DaylightTemps : input = [temp |-> F32OfInt(temp)]
    /\ output = None

\* the prelude: x_d, y_d, m1 and m2 from temp, and spd = [0.0; 95]
DaylightPrelude ==
    /\ output = None
    /\ \E x_d \in {DaylightXd(input.temp)} :
       \E y_d \in {DaylightYd(x_d)} :
          output' = Some([m1 |-> DaylightM1(x_d, y_d), m2 |-> DaylightM2(x_d, y_d),
                          spd |-> <<>>])
    /\ UNCHANGED <<driverVars, guiVars, input>>

\* one iteration of the loop
DaylightStep ==
    /\ IsSome(output)
    /\ Len(Unwrap(output).spd) < DaylightPoints
    /\ LET o == Unwrap(output)
       IN  output' = Some([o EXCEPT !.spd = Append(@, DaylightAt(Len(@), o.m1, o.m2))])
    /\ UNCHANGED <<driverVars, guiVars, input>>

NextDaylight == DaylightPrelude \/ DaylightStep

SpecDaylight == InitDaylight /\ [][NextDaylight]_vars

\* the grid wavelength of entry k (1-based) of the SPD
DaylightWl(k) == 360 + (k - 1) * 5

\* the value the statement gives to a component at a grid wavelength: zero
\* outside 380..780, the table entry on the 10 nm grid, and halfway between
\* two entries v0 + (v1 - v0) / 2 in f32
SpecifiedComponent(table, wl) ==
    IF wl < 380 \/ wl > 780 THEN F32Zero
    ELSE IF wl % 10 = 0 THEN F32Dec(table[(wl - 380) \div 10 + 1], 10)
    ELSE LET v0 == F32Dec(table[(wl - 385) \div 10 + 1], 10)
             v1 == F32Dec(table[(wl - 385) \div 10 + 2], 10)
         IN  F32Add(v0, F32Div(F32Sub(v1, v0), F32OfInt(2)))

ComponentsAsSpecified(k) ==
    /\ Unwrap(output).spd[k].s0 = SpecifiedComponent(DaylightS0, DaylightWl(k))
    /\ Unwrap(output).spd[k].s1 = SpecifiedComponent(DaylightS1, DaylightWl(k))
    /\ Unwrap(output).spd[k].s2 = SpecifiedComponent(DaylightS2, DaylightWl(k))

\* C22: in the generated daylight SPD each of the components S0, S1 and S2
\* contributes zero at every grid wavelength outside 380-780 nm (360-375 and
\* 785-830) and the linear interpolation of its two neighbouring 10 nm table
\* entries at every grid wavelength inside.
C22_DaylightComponents ==
    IsSome(output) => \A k \in 1..Len(Unwrap(output).spd) : ComponentsAsSpecified(k)

\* ------------------------------------------------------------------------
\* read_measurement on its own, for any num_meas: input is num_meas, output
\* the position in the function, the number of interrupt reads issued, the
\* byte total and what it returns.
\* ------------------------------------------------------------------------
ReadNumMeas == {1, 2}
\* what one interrupt read may give: -1 for Err, else a byte count that the
\* transport cuts to the length of the slice it was handed
ReadOutcomes == {-1, 0, 1, 137, 273, 274, 600}

\* let total_bytes = bytes_per_read * num_meas as usize
total_bytes(num_meas) == NSEN * 2 * num_meas

InitReadLoop ==
    /\ DriverInit /\ store = StoreAbsent
    /\ GuiIdle
    /\ input \in ReadNumMeas
    /\ output = [at |-> "loop", reads |-> 0, xferred |-> 0, returns |-> "-", readings |-> 0]

\* one iteration of `while xferred < total_bytes`
ReadIteration ==
    /\ output.at = "loop"
    /\ output.xferred < total_bytes(input)
    /\ \E r \in ReadOutcomes :
          LET n == Min(r, total_bytes(input) - output.xferred)
          IN  output' =
                IF r < 0
                THEN [output EXCEPT !.reads = @ + 1, !.at = "done", !.returns = ErrUsb]
                ELSE IF ZeroReadBreaks(n)
                THEN [output EXCEPT !.reads = @ + 1, !.at = "left"]
                ELSE [output EXCEPT !.reads = @ + 1, !.xferred = @ + n,
                                    !.at = IF output.xferred + n < total_bytes(input)
                                           THEN "loop" ELSE "left"]
    /\ UNCHANGED <<driverVars, guiVars, input>>

\* after the loop: the short-read test and the decoded readings
ReadReturn ==
    /\ output.at = "left"
    /\ output' =
          IF ShortRead(output.xferred)
          THEN [output EXCEPT !.at = "done", !.returns = "Short read"]
          ELSE [output EXCEPT !.at = "done", !.returns = "Ok",
                              !.readings = output.xferred \div (NSEN * 2)]
    /\ UNCHANGED <<driverVars, guiVars, input>>

NextReadLoop == ReadIteration \/ ReadReturn

\* the thread goes on running, and an interrupt read that was issued returns
\* (with data, with nothing or with an error) within its timeout
SpecReadLoop ==
    InitReadLoop /\ [][NextReadLoop]_vars
        /\ WF_output(ReadIteration) /\ WF_output(ReadReturn)

ReadLoopIteration ==
    output.at = "loop" =>
        /\ output'.reads = output.reads + 1
        /\ output'.xferred <= input * 274
        /\ \/ output'.at = "done" /\ output'.returns = ErrUsb
              /\ output'.xferred = output.xferred
           \/ output'.at = "left" /\ output'.xferred = output.xferred
           \/ output'.at = "left" /\ output'.xferred = input * 274
           \/ /\ output'.at = "loop"
              /\ output'.xferred > output.xferred
              /\ output'.xferred < input * 274

\* C23: the measurement read loop terminates for every sequence of
\* interrupt-read outcomes: an iteration leaves the loop when the read fails,
\* when it delivers zero bytes or when the total reaches num_meas * 274;
\* every other iteration strictly increases the total; the total never
\* exceeds num_meas * 274.
C23_ReadLoopTerminates ==
    /\ [][ReadLoopIteration]_vars
    /\ (output.at = "loop" ~> output.at = "done")

\* two frames were asked for and both arrived
C23_Witness ==
    /\ input = 2
    /\ output.at = "done" /\ output.returns = "Ok"
    /\ output.xferred = 2 * 274 /\ output.readings = 2

\* ------------------------------------------------------------------------
\* measure_spot's trigger for firmware descriptors of any size: input is the
\* 24-byte answer to GET_FIRMWARE, the lamp and gain flags and whether the
\* build checks integer overflow.
\* ------------------------------------------------------------------------
DescriptorTicks == {1, 50, 4096, 131072}
DescriptorCounts == {1, 10000, 65536, 100000, 16777216}
FirmwareDescriptor(tick, count) ==
    <<1, 0, 0, 0, 2, 0, 0, 0>> \o U32ToLe(tick) \o U32ToLe(count)
        \o <<2, 0, 0, 0, 0, 32, 0, 0>>

InitTrigger ==
    /\ DriverInit /\ store = StoreAbsent
    /\ GuiIdle
    /\ \E tick \in DescriptorTicks, count \in DescriptorCounts :
          input \in [buf : {FirmwareDescriptor(tick, count)}, lamp : BOOLEAN,
                     high_gain : BOOLEAN, overflow_checks : BOOLEAN]
    /\ output = None

TriggerMeasure ==
    /\ output = None
    /\ output' = Some(MeasureSpotTrigger(DecodeFirmware(input.buf), input.lamp,
                                         input.high_gain, input.overflow_checks))
    /\ UNCHANGED <<driverVars, guiVars, input>>

NextTrigger == TriggerMeasure

SpecTrigger == InitTrigger /\ [][NextTrigger]_vars

\* C24: for every firmware descriptor with tick_us > 0 the int_clocks field
\* sent in TRIGGER_MEASURE (bytes 4..8 of the payload) is min_int_count
\* (bytes 12..16 of the descriptor), also when min_int_count * tick_us does
\* not fit in 32 bits.
C24_IntClocksIsMinIntCount ==
    (IsSome(output) /\ DecodeFirmware(input.buf).tick_duration > 0) =>
        /\ ~Unwrap(output).panic
        /\ SubSeq(Unwrap(output).pbuf, 5, 8) = SubSeq(input.buf, 13, 16)

\* the descriptors whose product fits do give min_int_count
C24_FittingProductGivesMinIntCount ==
    (IsSome(output)
        /\ ~U32Mul(DecodeFirmware(input.buf).min_int_count,
                   DecodeFirmware(input.buf).tick_duration).overflows) =>
        /\ ~Unwrap(output).panic
        /\ SubSeq(Unwrap(output).pbuf, 5, 8) = SubSeq(input.buf, 13, 16)

\* ------------------------------------------------------------------------
\* C25: when calibrate() has returned an error, for whatever reason (dial
\* position, transport failure or short read during the dark or the white
\* measurement), dark_ref and white_cal_factors are what they were when the
\* call was made.
\* ------------------------------------------------------------------------
C25_FailedCalibrateKeepsCalibration ==
    (pc = "idle" /\ call.op = "calibrate" /\ ~ret.ok) => CalibrationKept

\* ------------------------------------------------------------------------
\* The bytes the interrupt endpoint delivered since the last
\* TRIGGER_MEASURE of the call.
\* ------------------------------------------------------------------------
RECURSIVE DeliveredFrom(_)
DeliveredFrom(i) ==
    IF i > Len(usb) THEN 0
    ELSE (IF usb[i].xfer = "interrupt_read" /\ usb[i].ok THEN usb[i].res ELSE 0)
            + DeliveredFrom(i + 1)
Delivered == DeliveredFrom(LastTriggerAt + 1)

\* C26: measure(mode) returns a Spectrum only if exactly 274 bytes were
\* received from the interrupt endpoint after its TRIGGER_MEASURE; when the
\* first read gives zero bytes, or the total received is any other value
\* below 274, measure returns an error and no Spectrum.
C26_SpectrumOnlyFromFullFrame ==
    (pc = "idle" /\ call.op = "measure") =>
        /\ ret.ok => (Triggers # <<>> /\ Delivered = 274)
        /\ (Triggers # <<>> /\ Delivered < 274) =>
              (~ret.ok /\ ret.err \in {ErrDevice, ErrUsb})
        /\ (Triggers # <<>> /\ usb[Len(usb)].xfer = "interrupt_read"
                /\ usb[Len(usb)].ok /\ Delivered < 274) =>
              (ret.err = ErrDevice
                 /\ ret.val = IF Delivered = 0 THEN "No data" ELSE "Short read")

\* half a frame arrived, then a read of zero bytes: measure failed
C26_Witness ==
    /\ pc = "idle" /\ call.op = "measure" /\ Triggers # <<>>
    /\ Delivered = 137 /\ usb[Len(usb)].res = 0
    /\ ~ret.ok /\ ret.val = "Short read"

\* ------------------------------------------------------------------------
\* C27: once is_calibrated(Reflective) is true for an instrument, i.e.
\* white_cal_factors is present, it stays true through every later step of
\* measure and calibrate calls (and of status, info, supported_modes and
\* is_calibrated), failing calls included.
\* ------------------------------------------------------------------------
StaysCalibrated ==
    (IsSome(white_cal_factors) /\ call'.op # "new") => IsSome(white_cal_factors')

C27_ReflectiveStaysCalibrated == [][StaysCalibrated]_vars

\* a calibrated instrument whose next calibrate failed in the white
\* measurement
C27_Witness ==
    /\ pc = "idle" /\ call.op = "calibrate" /\ ~ret.ok
    /\ Len(Triggers) = 2
    /\ IsSome(pre.white_cal_factors) /\ IsSome(white_cal_factors)

\* ------------------------------------------------------------------------
\* C28: in every state of an initialised instrument dark_ref, if present,
\* has exactly 137 entries, white_cal_factors, if present, has exactly 36,
\* and white_cal_factors is present only if dark_ref is.
\* ------------------------------------------------------------------------
C28_CalibrationShape ==
    HasMunki =>
        /\ IsSome(dark_ref) => Len(Unwrap(dark_ref)) = 137
        /\ IsSome(white_cal_factors) => Len(Unwrap(white_cal_factors)) = 36
        /\ IsSome(white_cal_factors) => IsSome(dark_ref)

\* the state between the two measurements of the first calibration: a
\* dark reference measured by the instrument, no factors yet
C28_Witness ==
    /\ HasMunki /\ call.op = "calibrate" /\ pc = "trig" /\ lamp
    /\ pre.dark_ref = None
    /\ IsSome(dark_ref) /\ white_cal_factors = None

\* ------------------------------------------------------------------------
\* C29: while the worker is executing a calibrate or a measure (from taking
\* the command off the channel until it has sent its last update), the UI's
\* is_busy flag is true, so that the Measure and Calibrate buttons are
\* disabled during the operation.
\* ------------------------------------------------------------------------
WorkerOperating == wpc \in {"calibrate", "measure", "result", "disconnected"}

C29_BusyWhileWorkerOperates == WorkerOperating => is_busy

\* ------------------------------------------------------------------------
\* The GUI with its scheduling: the worker thread goes on running (it is
\* one thread, at most one of its steps is enabled at a time), a call
\* into the driver returns, and update() is called again and again (it ends
\* with ctx.request_repaint()), so that updates waiting in the channel are
\* drained; nothing makes the user click.  The last conjunct is
\* WF_vars(DriverStep) written out: a driver step is enabled exactly while
\* pc # "idle".
\* ------------------------------------------------------------------------
SpecGuiFair ==
    /\ InitGui /\ [][NextGui]_vars
    /\ WF_vars(upd_q # <<>> /\ Update)
    /\ WF_vars(WorkerStep)
    /\ ([]<>(pc = "idle") \/ []<><<DriverStep>>_vars)

\* the updates whose arm in update() sets is_busy = false
ClearsBusy(u) == u \in {"Connected", "Status", "CalibrationSuccessful", "Result", "Error"}

\* the worker, taking a command off the channel, sends an update that
\* clears is_busy
CommandAnswered ==
    (cmd_q # <<>> /\ cmd_q' = Tail(cmd_q)) =>
        /\ Len(upd_q') = Len(upd_q) + 1
        /\ ClearsBusy(upd_q'[Len(upd_q')])

\* C30: every command the UI sends to the worker is eventually taken and
\* answered by at least one update that clears is_busy, also when no device
\* is connected and when the device was dropped after a USB error; is_busy
\* is never left true forever.
C30_EveryCommandAnswered ==
    /\ [][CommandAnswered]_vars
    /\ (cmd_q # <<>> ~> cmd_q = <<>>)
    /\ (is_busy ~> ~is_busy)

\* two commands were sent, the device was dropped after a USB error in
\* measure, and every update has been handled: is_busy is false
C30_Witness ==
    /\ clicks = 2 /\ device = None /\ wpc = "recv" /\ cmd_q = <<>>
    /\ call.op = "measure" /\ ~ret.ok /\ ret.err = ErrUsb
    /\ ~is_busy /\ upd_q = <<>>

====
